---- MODULE Spec2Model ----
(***************************************************************************)
(* Model of the routing core (core/src/router.cpp, tile_store.cpp,         *)
(* tile_view.h, tiler.h, edge_id.h): Router::route with its tile loading,  *)
(* graph assembly, snapping, virtual nodes, bidirectional search and       *)
(* result assembly, and the LRU cache of TileStore.  Spec is one call of   *)
(* route, RepeatSpec successive calls on one Router, StoreSpec the store   *)
(* used on its own.                                                        *)
(*                                                                         *)
(* Units.  All coordinates lie on the equator (lat = 0); one unit of       *)
(* longitude is 0.00125 degree, for which haversine gives 139 m, so        *)
(* haversine(a, b) = 139 * |a.lon - b.lon| metres.  Speeds are in cm/s     *)
(* and times in milliseconds, which keeps every value of the inputs        *)
(* below an integer.  Vectors are functions on 0 .. n-1, as in the code.   *)
(***************************************************************************)
EXTENDS Integers, Sequences, FiniteSets, TLC

\* ---------------------------------------------------------------- bounds
\* Longest waypoint list handed to route.
MaxWaypoints == 3

\* Calls of route made on one Router.
MaxCalls == 2

\* Loads other queries make on the Router's store around the calls.
MaxOtherLoads == 1

\* Largest cache capacity of a store used on its own, and the number of
\* loads made on it.
MaxCapacity == 3
MaxLoads == 5

\* ------------------------------------------------------------- utilities
Abs(x) == IF x < 0 THEN 0 - x ELSE x
Min2(a, b) == IF a <= b THEN a ELSE b
Max2(a, b) == IF a >= b THEN a ELSE b

\* std::vector as a function on 0 .. n-1
EmptyVec == [i \in {} |-> 0]
Size(v) == Cardinality(DOMAIN v)
PushBack(v, x) == [i \in 0 .. Size(v) |-> IF i < Size(v) THEN v[i] ELSE x]
MkVec(s) == [i \in 0 .. Len(s) - 1 |-> s[i + 1]]

\* std::numeric_limits<double>::infinity()
Inf == 1000000000

Coord(la, lo) == [lat |-> la, lon |-> lo]

\* Metres of one longitude unit on the equator (R * pi / 180 * 0.00125).
MetresPerUnit == 139

haversine(a, b) == MetresPerUnit * Abs(a.lon - b.lon)

\* --------------------------------------------------------------- edge id
\* [z:8][x:20][y:20][edgeIdx:16], kept as the tuple of its four bit fields
\* from the most significant one.
makeEdgeId(z, x, y, edgeIdx) ==
  << z % 256, x % 1048576, y % 1048576, edgeIdx % 65536 >>

parseEdgeId(id) == [z |-> id[1], x |-> id[2], y |-> id[3], edgeIdx |-> id[4]]

\* A uint64_t as its 64 bits, the most significant one first.
U64(n) == [i \in 1 .. 64 |-> IF i <= 33 THEN 0 ELSE (n \div (2 ^ (64 - i))) % 2]
Shl(a, k) == [i \in 1 .. 64 |-> IF i + k <= 64 THEN a[i + k] ELSE 0]
Shr(a, k) == [i \in 1 .. 64 |-> IF i - k >= 1 THEN a[i - k] ELSE 0]
Or(a, b) == [i \in 1 .. 64 |-> IF a[i] = 1 \/ b[i] = 1 THEN 1 ELSE 0]
And(a, b) == [i \in 1 .. 64 |-> IF a[i] = 1 /\ b[i] = 1 THEN 1 ELSE 0]

\* static_cast to a 32-bit integer: the value of the low 32 bits (the masks
\* of parse leave at most 20 of them set).
RECURSIVE LowBits(_, _)
LowBits(a, i) ==
  IF i > 64 THEN 0
  ELSE (IF a[i] = 1 THEN 2 ^ (64 - i) ELSE 0) + LowBits(a, i + 1)
Low32(a) == LowBits(a, 33)

\* routing_core::makeEdgeId of tiler.h: [z:12][x:20][y:20][edgeIdx:12].
tilerMakeEdgeId(z, x, y, edgeIdx) ==
  Or(Or(Or(Shl(U64(z % 4096), 52),
           Shl(U64(x % 1048576), 32)),
        Shl(U64(y % 1048576), 12)),
     U64(edgeIdx % 4096))

\* edgeid::make: the four masked fields shifted into place.
edgeid_make(z, x, y, edgeIdx) ==
  Or(Or(Or(Shl(U64(z % 256), 56),
           Shl(U64(x % 1048576), 36)),
        Shl(U64(y % 1048576), 16)),
     U64(edgeIdx % 65536))

\* edgeid::parse: the four fields shifted down and masked.
edgeid_parse(id) ==
  [z |-> Low32(And(Shr(id, 56), U64(255))),
   x |-> Low32(And(Shr(id, 36), U64(1048575))),
   y |-> Low32(And(Shr(id, 16), U64(1048575))),
   edgeIdx |-> Low32(And(id, U64(65535)))]

\* ------------------------------------------------------------ the tiles
Car == "Car"
Foot == "Foot"

\* 180 degrees in longitude units.
HalfWorld == 144000

\* Tile column/row of a point of the equator at zoom z.
webTileKeyFor(c, z) ==
  LET n == 2 ^ z
      x0 == ((c.lon + HalfWorld) * n) \div (2 * HalfWorld)
      y0 == n \div 2
      cl(v) == IF v < 0 THEN 0 ELSE IF v >= n THEN n - 1 ELSE v
  IN  [z |-> z, x |-> cl(x0), y |-> cl(y0)]

\* ---------------------------------------------------------- the container
\* Routing::Edge of the blob schema; shape is the edge's slice of the shape
\* pool (empty when shape_count = 0).
Edge(from, to, len, car, foot, ow, mask, shp) ==
  [from_node |-> from, to_node |-> to, length_m |-> len, speed_mps |-> car,
   foot_speed_mps |-> foot, oneway |-> ow, access_mask |-> mask, shape |-> shp]

\* The edge kinds of the data sets.  a, b are the node indices of the two
\* ends and span their distance in longitude units.
EdgeKinds == {"two", "one", "rev", "foot", "slow", "motorway", "e1"}

EdgeOfKind(kind, a, b, span, shp) ==
  CASE kind = "two"      -> Edge(a, b, 139 * span, 1390, 139, FALSE, 3, shp)
    [] kind = "one"      -> Edge(a, b, 139 * span, 1390, 139, TRUE, 3, shp)
    [] kind = "rev"      -> Edge(b, a, 139 * span, 1390, 139, TRUE, 3, shp)
    [] kind = "foot"     -> Edge(a, b, 139 * span, 0, 139, FALSE, 2, shp)
    [] kind = "slow"     -> Edge(a, b, 417 * span, 1390, 139, FALSE, 3, shp)
    [] kind = "motorway" -> Edge(a, b, 139 * span, 2780, 0, FALSE, 1, shp)
    [] kind = "e1"       -> Edge(a, b, 1000, 1000, 125, FALSE, 3, shp)

TileNode(p) == [lat_q |-> 0, lon_q |-> p]

LandTile(z, x, y, ns, es) == [z |-> z, x |-> x, y |-> y, nodes |-> ns, edges |-> es]

\* The road network of the data sets: five nodes at longitudes -2, 0, 2, 4, 6,
\* a chain of four edges and one edge 0 -- 4 that bypasses node 2.  The last
\* edge of the chain has an explicit three-point shape.
\* At zoom 0 the whole network is tile (0,0); at zoom 1 the meridian splits it
\* into tile (0,1), west, and tile (1,1), east, which share the node at 0.
WorldTiles(z, kW, k0, k2) ==
  IF z = 0
  THEN { LandTile(0, 0, 0,
           MkVec(<< TileNode(-2), TileNode(0), TileNode(2), TileNode(4), TileNode(6) >>),
           MkVec(<< EdgeOfKind(kW, 0, 1, 2, << >>),
                    EdgeOfKind(k0, 1, 2, 2, << >>),
                    EdgeOfKind("two", 2, 3, 2, << >>),
                    EdgeOfKind(k2, 1, 3, 4, << >>),
                    EdgeOfKind("two", 3, 4, 2, << Coord(0, 4), Coord(0, 5), Coord(0, 6) >>) >>)) }
  ELSE { LandTile(1, 0, 1,
           MkVec(<< TileNode(-2), TileNode(0) >>),
           MkVec(<< EdgeOfKind(kW, 0, 1, 2, << >>) >>)),
         LandTile(1, 1, 1,
           MkVec(<< TileNode(0), TileNode(2), TileNode(4), TileNode(6) >>),
           MkVec(<< EdgeOfKind(k0, 0, 1, 2, << >>),
                    EdgeOfKind("two", 1, 2, 2, << >>),
                    EdgeOfKind(k2, 0, 2, 4, << >>),
                    EdgeOfKind("two", 2, 3, 2, << Coord(0, 4), Coord(0, 5), Coord(0, 6) >>) >>)) }

TileKey(z, x, y) == [z |-> z, x |-> x, y |-> y]

\* The keys the network is stored under at zoom z.
HomeKeys(z) == IF z = 0 THEN {TileKey(0, 0, 0)} ELSE {TileKey(1, 0, 1), TileKey(1, 1, 1)}

\* The network with every edge made an edge of one kind (all foot-only, all
\* car-only).
Rekind(t, kind) ==
  [t EXCEPT !.edges =
     [i \in DOMAIN t.edges |->
        LET e == t.edges[i]
        IN  EdgeOfKind(kind, e.from_node, e.to_node,
                       Abs(t.nodes[e.to_node].lon_q - t.nodes[e.from_node].lon_q), e.shape)]]

UniformTiles(z, kind) == { Rekind(t, kind) : t \in WorldTiles(z, "two", "two", "slow") }

\* Tiles route discards: one without an edge, one with a single node.
NoEdgeTile(k) ==
  LandTile(k.z, k.x, k.y, MkVec(<< TileNode(0), TileNode(2) >>), EmptyVec)
OneNodeTile(k) ==
  LandTile(k.z, k.x, k.y, MkVec(<< TileNode(0) >>),
           MkVec(<< EdgeOfKind("two", 0, 0, 0, << >>) >>))
Unusable(k) == {NoEdgeTile(k), OneNodeTile(k)}

\* Containers with little or nothing to route on: the empty one, the network
\* converted for the other zoom, one unusable tile alone, and the network with
\* one of its tiles replaced by an unusable one.
SparseWorlds(z) ==
  LET W == WorldTiles(z, "two", "two", "slow")
  IN  {{}} \cup {WorldTiles(1 - z, "two", "two", "slow")}
      \cup UNION { { {u} : u \in Unusable(k) } : k \in HomeKeys(z) }
      \cup UNION { { (W \ {t}) \cup {u} : u \in Unusable(TileKey(t.z, t.x, t.y)) } : t \in W }

\* The network with a structurally invalid blob: the tile of the node at
\* longitude 6 carries one more edge, foot-only, whose to_node is no node of
\* the tile.
BadNode == 9
BrokenTiles(z) ==
  { IF Size(t.nodes) > 2
    THEN [t EXCEPT !.edges = PushBack(@, Edge(0, BadNode, 278, 0, 139, FALSE, 2, << >>))]
    ELSE t : t \in WorldTiles(z, "two", "two", "slow") }

\* The containers of the queries.
Databases(z) ==
  { WorldTiles(z, kW, k0, k2) : kW \in {"two", "one", "e1"},
                                k0 \in {"two", "one", "rev", "foot"},
                                k2 \in {"slow", "motorway", "foot"} }
  \cup SparseWorlds(z)
  \cup {UniformTiles(z, "foot"), UniformTiles(z, "motorway")}
  \cup {BrokenTiles(z)}

\* Waypoint longitudes of the queries.
EndPos == {-2, -1, 0, 1, 3, 6}
MidPos == {-1, 3}

WaypointLists ==
  { << >> } \cup { << Coord(0, 1) >> }
  \cup { << Coord(0, a), Coord(0, b) >> : a \in EndPos, b \in EndPos }
  \cup UNION { { << Coord(0, a) >> \o m \o << Coord(0, b) >> :
                   a \in {1}, b \in {3, 6},
                   m \in [1 .. n - 2 -> {Coord(0, p) : p \in MidPos}] } :
               n \in 3 .. MaxWaypoints }

\* ------------------------------------------------------------- tile view
nodeCount(view) == Size(view.nodes)
edgeCount(view) == Size(view.edges)
edgeAt(view, ei) == view.edges[ei]
nodeLatQ(view, i) == view.nodes[i].lat_q
nodeLonQ(view, i) == view.nodes[i].lon_q
\* nodeLat/nodeLon: the quantized value in degrees; the model keeps degrees in
\* the quantization unit.
nodeCoord(view, i) == Coord(view.nodes[i].lat_q, view.nodes[i].lon_q)

\* The lambda next of decodeEncodedPolyline: the value that starts at idx of
\* the string s (a sequence of character codes, idx from 0) and the index
\* after it.  result |= (b & 0x1f) << shift adds the five bits above the
\* ones read so far; the last line undoes the zigzag coding of the sign.
RECURSIVE nextChunks(_, _, _, _)
nextChunks(s, idx, result, shift) ==
  LET b == s[idx + 1] - 63
      r == result + (b % 32) * (2 ^ shift)
  IN  IF b >= 32 /\ idx + 1 < Len(s)
      THEN nextChunks(s, idx + 1, r, shift + 5)
      ELSE [value |-> IF r % 2 = 1 THEN -(r \div 2) - 1 ELSE r \div 2, idx |-> idx + 1]

\* TileView::decodeEncodedPolyline: the points of s, each the running sum of
\* the deltas read, times 1e-5 degrees (10 units of lat_q).
RECURSIVE decodeEncodedPolyline(_, _, _, _, _)
decodeEncodedPolyline(s, index, lat, lon, pts) ==
  IF index >= Len(s) THEN pts
  ELSE LET a == nextChunks(s, index, 0, 0)
           b == nextChunks(s, a.idx, 0, 0)
       IN  decodeEncodedPolyline(s, b.idx, lat + a.value, lon + b.value,
                                 Append(pts, Coord(10 * (lat + a.value), 10 * (lon + b.value))))

\* The edge carries an encoded polyline (the field is absent from the edges
\* the converter writes).
hasEncodedPolyline(e) == "encoded_polyline" \in DOMAIN e

\* An appendEdgeShape that looks at the encoded polyline before the shape.
appendEdgeShapeEncodedFirst(view, edgeIdx, out, skipFirst) ==
  LET e == edgeAt(view, edgeIdx)
      pts == IF hasEncodedPolyline(e)
             THEN decodeEncodedPolyline(e.encoded_polyline, 0, 0, 0, << >>)
             ELSE IF Len(e.shape) > 0
             THEN e.shape
             ELSE << nodeCoord(view, e.from_node), nodeCoord(view, e.to_node) >>
  IN  IF pts = << >> THEN out
      ELSE IF skipFirst /\ out # << >> THEN out \o Tail(pts) ELSE out \o pts

\* The edge's polyline appended to out: the explicit shape when there is
\* one, else the decoded polyline when the edge carries one, else the two
\* end nodes.  The first point is left out only when skipFirst is set and
\* out is not empty.
appendEdgeShape(view, edgeIdx, out, skipFirst) ==
  LET e == edgeAt(view, edgeIdx)
      pts == IF Len(e.shape) > 0
             THEN e.shape
             ELSE IF hasEncodedPolyline(e)
             THEN decodeEncodedPolyline(e.encoded_polyline, 0, 0, 0, << >>)
             ELSE << nodeCoord(view, e.from_node), nodeCoord(view, e.to_node) >>
  IN  IF pts = << >> THEN out
      ELSE IF skipFirst /\ out # << >> THEN out \o Tail(pts) ELSE out \o pts

\* -------------------------------------------------------- access, weight
speedOf(e, profile) == IF profile = Car THEN e.speed_mps ELSE e.foot_speed_mps

maskBit(e, profile) ==
  IF profile = Car THEN e.access_mask % 2 = 1 ELSE (e.access_mask \div 2) % 2 = 1

edgeAllowed(e, profile, fromNode) ==
  /\ maskBit(e, profile)
  /\ ~(e.oneway /\ fromNode # e.from_node)

\* length_m / speed in milliseconds (speed in cm/s); infinite without speed.
edgeTraversalTimeSec(e, profile) ==
  IF speedOf(e, profile) <= 0 THEN Inf
  ELSE (e.length_m * 100000) \div speedOf(e, profile)

\* ----------------------------------------------------------- global graph
GlobalEdge(to, w, isVirt, tx, ty, ei) ==
  [to |-> to, w |-> w, isVirt |-> isVirt, tileX |-> tx, tileY |-> ty, edgeIdx |-> ei]

\* The 64-bit key (lat_q << 32) ^ lon_q, kept as the pair of its two halves.
QKey(lat_q, lon_q) == << lat_q, lon_q >>

EmptyGraph == [nodes |-> EmptyVec, adj |-> EmptyVec, revAdj |-> EmptyVec,
               q2node |-> [k \in {} |-> 0]]

\* An arc whose reverse entry records the size of adj[u] after the push.
AddArcRecordingSize(g, u, ge) ==
  LET adj1 == [g.adj EXCEPT ![u] = PushBack(@, ge)]
  IN  [g EXCEPT !.adj = adj1,
                !.revAdj = [g.revAdj EXCEPT ![ge.to] = PushBack(@, << u, Size(adj1[u]) >>)]]

\* adj[u].push_back(ge); revAdj[ge.to].push_back({u, adj[u].size()-1})
AddArc(g, u, ge) ==
  LET adj1 == [g.adj EXCEPT ![u] = PushBack(@, ge)]
  IN  [g EXCEPT !.adj = adj1,
                !.revAdj = [g.revAdj EXCEPT ![ge.to] = PushBack(@, << u, Size(adj1[u]) - 1 >>)]]

\* A nodeIdFor that makes a new global node at every call.
nodeIdForWithoutFusion(g, lat_q, lon_q, c) ==
  LET key == QKey(lat_q, lon_q)
  IN  [g |-> [nodes |-> PushBack(g.nodes, c),
              adj |-> PushBack(g.adj, EmptyVec),
              revAdj |-> PushBack(g.revAdj, EmptyVec),
              q2node |-> [k \in DOMAIN g.q2node \cup {key} |->
                            IF k = key THEN Size(g.nodes) ELSE g.q2node[k]]],
       id |-> Size(g.nodes)]

nodeIdFor(g, lat_q, lon_q, c) ==
  LET key == QKey(lat_q, lon_q)
  IN  IF key \in DOMAIN g.q2node
      THEN [g |-> g, id |-> g.q2node[key]]
      ELSE [g |-> [nodes |-> PushBack(g.nodes, c),
                   adj |-> PushBack(g.adj, EmptyVec),
                   revAdj |-> PushBack(g.revAdj, EmptyVec),
                   q2node |-> [k \in DOMAIN g.q2node \cup {key} |->
                                 IF k = key THEN Size(g.nodes) ELSE g.q2node[k]]],
            id |-> Size(g.nodes)]

\* local2global of one tile, node by node
RECURSIVE MapTileNodes(_, _, _, _)
MapTileNodes(g, view, i, l2g) ==
  IF i >= nodeCount(view) THEN [g |-> g, l2g |-> l2g]
  ELSE LET r == nodeIdFor(g, nodeLatQ(view, i), nodeLonQ(view, i), nodeCoord(view, i))
       IN  MapTileNodes(r.g, view, i + 1, PushBack(l2g, r.id))

\* AddTileEdge with the opposite arc added whether or not the edge is oneway.
AddTileEdgeBothWays(g, tref, view, ei, l2g, profile) ==
  LET e == edgeAt(view, ei)
      w == edgeTraversalTimeSec(e, profile)
      u == l2g[e.from_node]
      v == l2g[e.to_node]
  IN  IF ~edgeAllowed(e, profile, e.from_node) \/ w >= Inf THEN g
      ELSE AddArc(AddArc(g, u, GlobalEdge(v, w, 0, tref.x, tref.y, ei)),
                  v, GlobalEdge(u, w, 0, tref.x, tref.y, ei))

\* The arcs of one tile edge: from -> to when the profile may drive it, and
\* to -> from as well unless the edge is oneway.
AddTileEdge(g, tref, view, ei, l2g, profile) ==
  LET e == edgeAt(view, ei)
      w == edgeTraversalTimeSec(e, profile)
      u == l2g[e.from_node]
      v == l2g[e.to_node]
  IN  IF ~edgeAllowed(e, profile, e.from_node) \/ w >= Inf THEN g
      ELSE LET g1 == AddArc(g, u, GlobalEdge(v, w, 0, tref.x, tref.y, ei))
           IN  IF ~e.oneway /\ edgeAllowed(e, profile, e.to_node)
               THEN AddArc(g1, v, GlobalEdge(u, w, 0, tref.x, tref.y, ei))
               ELSE g1

RECURSIVE AddTileEdges(_, _, _, _, _, _)
AddTileEdges(g, tref, view, ei, l2g, profile) ==
  IF ei >= edgeCount(view) THEN g
  ELSE AddTileEdges(AddTileEdge(g, tref, view, ei, l2g, profile),
                    tref, view, ei + 1, l2g, profile)

RECURSIVE AddTiles(_, _, _, _)
AddTiles(g, tls, k, profile) ==
  IF k >= Size(tls) THEN g
  ELSE LET m == MapTileNodes(g, tls[k].view, 0, EmptyVec)
       IN  AddTiles(AddTileEdges(m.g, tls[k].key, tls[k].view, 0, m.l2g, profile),
                    tls, k + 1, profile)

buildGlobalGraph(profile, tls) == AddTiles(EmptyGraph, tls, 0, profile)

\* The graph when the loop of buildGlobalGraph reaches tile k, and the
\* local2global vector the loop fills for tile k.
graphBefore(profile, tls, k) ==
  AddTiles(EmptyGraph, [i \in 0 .. k - 1 |-> tls[i]], 0, profile)
local2global(profile, tls, k) ==
  MapTileNodes(graphBefore(profile, tls, k), tls[k].view, 0, EmptyVec).l2g

\* ------------------------------------------------------------------ snap
\* The projection parameter t is the fraction tn / td.
NoSnap == [has |-> FALSE, edgeIdx |-> 0, fromNode |-> -1, toNode |-> -1,
           segIndex |-> -1, tn |-> 0, td |-> 1, proj |-> Coord(0, 0), dist_m |-> Inf]

\* Planar projection of p on the segment a -- b (lon = x, lat = y), t clamped
\* to [0, 1].
projectPointToSegment(a, b, p) ==
  LET vx == b.lon - a.lon
      vy == b.lat - a.lat
      wx == p.lon - a.lon
      wy == p.lat - a.lat
      c1 == vx * wx + vy * wy
      c2 == vx * vx + vy * vy
      tn == IF c2 <= 0 THEN 0 ELSE Max2(0, Min2(c2, c1))
      td == IF c2 <= 0 THEN 1 ELSE c2
  IN  [tn |-> tn, td |-> td,
       out |-> Coord(a.lat + (tn * vy) \div td, a.lon + (tn * vx) \div td)]

\* A segment scan in which a candidate of equal distance replaces the best.
RECURSIVE SnapSegmentsLastWins(_, _, _, _, _, _)
SnapSegmentsLastWins(best, e, ei, tmp, k, c) ==
  IF k + 1 >= Len(tmp) THEN best
  ELSE LET pr == projectPointToSegment(tmp[k + 1], tmp[k + 2], c)
           d == haversine(c, pr.out)
           nb == IF d <= best.dist_m
                 THEN [has |-> TRUE, edgeIdx |-> ei, fromNode |-> e.from_node,
                       toNode |-> e.to_node, segIndex |-> k, tn |-> pr.tn,
                       td |-> pr.td, proj |-> pr.out, dist_m |-> d]
                 ELSE best
       IN  SnapSegmentsLastWins(nb, e, ei, tmp, k + 1, c)

RECURSIVE SnapSegments(_, _, _, _, _, _)
SnapSegments(best, e, ei, tmp, k, c) ==
  IF k + 1 >= Len(tmp) THEN best
  ELSE LET pr == projectPointToSegment(tmp[k + 1], tmp[k + 2], c)
           d == haversine(c, pr.out)
           nb == IF d < best.dist_m
                 THEN [has |-> TRUE, edgeIdx |-> ei, fromNode |-> e.from_node,
                       toNode |-> e.to_node, segIndex |-> k, tn |-> pr.tn,
                       td |-> pr.td, proj |-> pr.out, dist_m |-> d]
                 ELSE best
       IN  SnapSegments(nb, e, ei, tmp, k + 1, c)

RECURSIVE SnapEdges(_, _, _, _, _)
SnapEdges(best, view, ei, c, profile) ==
  IF ei >= edgeCount(view) THEN best
  ELSE LET e == edgeAt(view, ei)
           tmp == appendEdgeShape(view, ei, << >>, FALSE)
       IN  IF ~maskBit(e, profile) \/ speedOf(e, profile) <= 0 \/ Len(tmp) < 2
           THEN SnapEdges(best, view, ei + 1, c, profile)
           ELSE SnapEdges(SnapSegments(best, e, ei, tmp, 0, c), view, ei + 1, c, profile)

snapToEdge(view, c, profile) ==
  IF edgeCount(view) = 0 THEN NoSnap ELSE SnapEdges(NoSnap, view, 0, c, profile)

\* The nearest snap over all loaded tiles, the first tile winning a tie.
RECURSIVE BestSnapFrom(_, _, _, _, _)
BestSnapFrom(best, tls, i, c, profile) ==
  IF i >= Size(tls) THEN best
  ELSE LET sn == snapToEdge(tls[i].view, c, profile)
       IN  IF sn.has /\ sn.dist_m < best.snap.dist_m
           THEN BestSnapFrom([snap |-> sn, tile |-> i], tls, i + 1, c, profile)
           ELSE BestSnapFrom(best, tls, i + 1, c, profile)

bestSnap(tls, c, profile) ==
  BestSnapFrom([snap |-> NoSnap, tile |-> -1], tls, 0, c, profile)

\* ------------------------------------------------------------ tile range
\* clamp(ceil(dist_km / 4) + 1, 1, 8)
dynFrame(dist_m) ==
  LET f == (dist_m + 3999) \div 4000 + 1
  IN  IF f < 1 THEN 1 ELSE IF f > 8 THEN 8 ELSE f

\* A rectangle that is not widened towards the larger x.
collectTileRangeOneSided(a, b, frame, z) ==
  LET ka == webTileKeyFor(a, z)
      kb == webTileKeyFor(b, z)
      minx == Min2(ka.x, kb.x) - frame
      maxx == Max2(ka.x, kb.x)
      miny == Min2(ka.y, kb.y) - frame
      maxy == Max2(ka.y, kb.y) + frame
      wd == maxx - minx + 1
  IN  [i \in 0 .. wd * (maxy - miny + 1) - 1 |->
         [z |-> z, x |-> minx + (i % wd), y |-> miny + (i \div wd)]]

\* The keys of the rectangle spanned by the tiles of a and b, widened by
\* frame, row by row.
collectTileRange(a, b, frame, z) ==
  LET ka == webTileKeyFor(a, z)
      kb == webTileKeyFor(b, z)
      minx == Min2(ka.x, kb.x) - frame
      maxx == Max2(ka.x, kb.x) + frame
      miny == Min2(ka.y, kb.y) - frame
      maxy == Max2(ka.y, kb.y) + frame
      wd == maxx - minx + 1
  IN  [i \in 0 .. wd * (maxy - miny + 1) - 1 |->
         [z |-> z, x |-> minx + (i % wd), y |-> miny + (i \div wd)]]

\* ------------------------------------------------------------ tile store
\* RouterOptions::tileCacheCapacity as a Router is made by default.
DefaultCapacity == 128

\* The row of land_tiles stored under the key, if any (SELECT ... LIMIT 1).
storeLoad(database, key) ==
  { t \in database : t.z = key.z /\ t.x = key.x /\ t.y = key.y }

\* A TileBlob object: id tells one object from another (0 is the null
\* pointer), buffer is the tile the bytes decode to.
NullBlob == [id |-> 0, key |-> TileKey(0, 0, 0), buffer |-> {}]
TileBlob(id, key, t) == [id |-> id, key |-> key, buffer |-> t]

\* A TileStore: capacity_, lru_ (front = most recent) and map_; dbReads counts
\* the SELECTs run on the backing store and made the blob objects created.
\* The buffers are shared (std::shared_ptr): held are the blobs whose buffer a
\* TileView references, freed the blobs whose buffer was destroyed.
NewStore(cap) ==
  [capacity_ |-> cap, lru_ |-> << >>, map_ |-> << >>, dbReads |-> 0, made |-> 0,
   held |-> {}, freed |-> {}]

\* The blob objects the cache references.
cachedIds(st) == { st.map_[k].id : k \in DOMAIN st.map_ }

\* A shared pointer to a blob goes away: the buffer is destroyed when neither
\* the cache nor a view references it any more.
release(st, ids) ==
  [st EXCEPT !.freed = @ \cup { i \in ids : i # 0 /\ i \notin st.held /\ i \notin cachedIds(st) }]

\* TileView's constructor: the view shares the buffer of the blob.
hold(st, id) == [st EXCEPT !.held = @ \cup {id}]

\* The views of a call are destroyed when route returns.
destroyViews(st) == release([st EXCEPT !.held = {}], st.held)

\* lru_ without the key (std::list::erase of the entry's iterator).
eraseKey(lru, key) == SelectSeq(lru, LAMBDA k : k # key)

\* map_ without the key (unordered_map::erase).
mapErase(m, key) == [k \in DOMAIN m \ {key} |-> m[k]]

\* A read of the backing store that reports a failed read as a blob.
loadFromDbIgnoringFailure(database, st, key, ok) ==
  LET rows == storeLoad(database, key)
  IN  [store |-> [st EXCEPT !.dbReads = @ + 1, !.made = @ + 1],
       blob |-> TileBlob(st.made + 1, key,
                         IF rows = {} THEN NoEdgeTile(key) ELSE CHOOSE t \in rows : TRUE)]

\* TileStore::loadFromDb: one read of the backing store, a fresh blob object
\* when the row exists.  ok tells whether the read succeeds (the statement
\* is prepared and stepped without error); a failed read yields no blob.
loadFromDb(database, st, key, ok) ==
  LET rows == storeLoad(database, key)
  IN  IF ~ok \/ rows = {}
      THEN [store |-> [st EXCEPT !.dbReads = @ + 1], blob |-> NullBlob]
      ELSE [store |-> [st EXCEPT !.dbReads = @ + 1, !.made = @ + 1],
            blob |-> TileBlob(st.made + 1, key, CHOOSE t \in rows : TRUE)]

\* An insertion that caches whatever the capacity is.
insertLRUAlways(st, key, blob) ==
  [st EXCEPT !.lru_ = << key >> \o st.lru_, !.map_ = (key :> blob) @@ st.map_]

\* An insertion that never makes room.
insertLRUWithoutEviction(st, key, blob) ==
  IF st.capacity_ = 0 THEN st
  ELSE [st EXCEPT !.lru_ = << key >> \o st.lru_, !.map_ = (key :> blob) @@ st.map_]

\* An insertion that makes room at the front of lru_.
insertLRUEvictingFront(st, key, blob) ==
  IF st.capacity_ = 0 THEN st
  ELSE LET full == Len(st.lru_) >= st.capacity_
           first == st.lru_[1]
           lru1 == IF full THEN Tail(st.lru_) ELSE st.lru_
           map1 == IF full THEN mapErase(st.map_, first) ELSE st.map_
       IN  [st EXCEPT !.lru_ = << key >> \o lru1, !.map_ = (key :> blob) @@ map1]

\* An insertion whose eviction destroys the evicted buffer whoever holds it.
insertLRUDestroyingEvicted(st, key, blob) ==
  IF st.capacity_ = 0 THEN st
  ELSE LET full == Len(st.lru_) >= st.capacity_
           last == st.lru_[Len(st.lru_)]
           lru1 == IF full THEN SubSeq(st.lru_, 1, Len(st.lru_) - 1) ELSE st.lru_
           map1 == IF full THEN mapErase(st.map_, last) ELSE st.map_
           gone == IF full THEN {st.map_[last].id} ELSE {}
       IN  [st EXCEPT !.lru_ = << key >> \o lru1, !.map_ = (key :> blob) @@ map1,
                      !.freed = @ \cup gone]

\* TileStore::insertLRU.  Erasing the evicted entry drops the cache's
\* reference to its blob.
insertLRU(st, key, blob) ==
  IF st.capacity_ = 0 THEN st
  ELSE LET full == Len(st.lru_) >= st.capacity_
           last == st.lru_[Len(st.lru_)]
           lru1 == IF full THEN SubSeq(st.lru_, 1, Len(st.lru_) - 1) ELSE st.lru_
           map1 == IF full THEN mapErase(st.map_, last) ELSE st.map_
           gone == IF full THEN {st.map_[last].id} ELSE {}
       IN  release([st EXCEPT !.lru_ = << key >> \o lru1, !.map_ = (key :> blob) @@ map1],
                   gone)

\* A load whose hit leaves the recency order alone.
loadWithoutPromotion(database, st, key, ok) ==
  IF key \in DOMAIN st.map_
  THEN [store |-> st, blob |-> st.map_[key]]
  ELSE LET r == loadFromDb(database, st, key, ok)
       IN  IF r.blob.id = 0 THEN r
           ELSE [store |-> insertLRU(r.store, key, r.blob), blob |-> r.blob]

\* A load whose hit answers with the most recently used entry.
loadReturningFront(database, st, key, ok) ==
  IF key \in DOMAIN st.map_
  THEN [store |-> [st EXCEPT !.lru_ = << key >> \o eraseKey(st.lru_, key)],
        blob |-> st.map_[st.lru_[1]]]
  ELSE LET r == loadFromDb(database, st, key, ok)
       IN  IF r.blob.id = 0 THEN r
           ELSE [store |-> insertLRU(r.store, key, r.blob), blob |-> r.blob]

\* TileStore::load: the store after the call and the blob returned.
load(database, st, key, ok) ==
  IF key \in DOMAIN st.map_
  THEN [store |-> [st EXCEPT !.lru_ = << key >> \o eraseKey(st.lru_, key)],
        blob |-> st.map_[key]]
  ELSE LET r == loadFromDb(database, st, key, ok)
       IN  IF r.blob.id = 0 THEN r
           ELSE [store |-> insertLRU(r.store, key, r.blob), blob |-> r.blob]

\* A loaded tile route does not keep: only one without an edge.
discardedUnlessOneNode(v) == edgeCount(v) = 0

\* A loaded tile route does not keep (the view is valid whenever a blob was
\* returned).
discarded(v) == edgeCount(v) = 0 \/ nodeCount(v) < 2

\* The loading loop of route: every key of the rectangle is loaded through
\* the store, in key order; absent keys, tiles without an edge and tiles with
\* fewer than two nodes are left out of the loaded (key, view) pairs; buffer_
\* names the blob whose buffer the view shares.  The reads of the backing
\* store made for a query succeed.
RECURSIVE LoadTiles(_, _, _, _, _)
LoadTiles(database, st, trefs, i, acc) ==
  IF i >= Size(trefs) THEN [store |-> st, tiles |-> acc]
  ELSE LET r == load(database, st, trefs[i], TRUE)
           v == r.blob.buffer
       IN  IF r.blob.id = 0 THEN LoadTiles(database, r.store, trefs, i + 1, acc)
           ELSE IF discarded(v)
           THEN LoadTiles(database, release(r.store, {r.blob.id}), trefs, i + 1, acc)
           ELSE LoadTiles(database, hold(r.store, r.blob.id), trefs, i + 1,
                          PushBack(acc, [key |-> trefs[i], view |-> v,
                                         buffer_ |-> r.blob.id]))

\* --------------------------------------------------------- virtual nodes
\* t * w and (1 - t) * w for t = tn / td
timesT(tn, td, w) == (tn * w) \div td
timesOneMinusT(tn, td, w) == ((td - tn) * w) \div td

pickClosest(nds, a, b, c) ==
  IF haversine(nds[a], c) <= haversine(nds[b], c) THEN a ELSE b

globalOf(g, view, i) == g.q2node[QKey(nodeLatQ(view, i), nodeLonQ(view, i))]

\* nodes.push_back(proj); adj.emplace_back()  -- revAdj is not grown
allocVirtual(g, proj) ==
  [g EXCEPT !.nodes = PushBack(g.nodes, proj), !.adj = PushBack(g.adj, EmptyVec)]

pushAdj(g, u, ge) == [g EXCEPT !.adj = [g.adj EXCEPT ![u] = PushBack(@, ge)]]

addVS(g, view, snap, sNode, vS, profile) ==
  LET e == edgeAt(view, snap.edgeIdx)
      speed == speedOf(e, profile)
      w == (e.length_m * 100000) \div speed
      fromGlobal == globalOf(g, view, snap.fromNode)
      toGlobal == globalOf(g, view, snap.toNode)
      tw == timesT(snap.tn, snap.td, w)
      g1 == IF ~e.oneway \/ fromGlobal = sNode
            THEN pushAdj(g, sNode, GlobalEdge(vS, tw, 1, 0, 0, 0))
            ELSE g
      g2 == pushAdj(g1, vS, GlobalEdge(toGlobal, timesOneMinusT(snap.tn, snap.td, w), 1, 0, 0, 0))
  IN  IF speed <= 0 THEN g
      ELSE IF ~e.oneway THEN pushAdj(g2, vS, GlobalEdge(fromGlobal, tw, 1, 0, 0, 0))
      ELSE g2

addVE(g, view, snap, vE, profile) ==
  LET e == edgeAt(view, snap.edgeIdx)
      speed == speedOf(e, profile)
      w == (e.length_m * 100000) \div speed
      fromGlobal == globalOf(g, view, snap.fromNode)
      toGlobal == globalOf(g, view, snap.toNode)
      g1 == pushAdj(g, fromGlobal, GlobalEdge(vE, timesT(snap.tn, snap.td, w), 1, 0, 0, 0))
  IN  IF speed <= 0 THEN g
      ELSE IF ~e.oneway
           THEN pushAdj(g1, toGlobal, GlobalEdge(vE, timesOneMinusT(snap.tn, snap.td, w), 1, 0, 0, 0))
           ELSE g1

\* ---------------------------------------------------------------- search
\* Reference speed of the heuristic, cm/s.
HeurSpeed == 1390

heur(nds, v, target) == (haversine(nds[v], nds[target]) * 100000) \div HeurSpeed

NoLabel == [g |-> Inf, prev |-> -1, prevEdge |-> -1]

QMin(pq) == { q \in pq : \A r \in pq : q.f <= r.f }

\* A forward relaxation that also takes a label of equal cost.
RECURSIVE relaxForwardOnEqual(_, _, _, _, _)
relaxForwardOnEqual(st, g, u, i, t) ==
  IF i >= Size(g.adj[u]) THEN st
  ELSE LET e == g.adj[u][i]
           cand == st.F[u].g + e.w
       IN  IF cand <= st.F[e.to].g
           THEN LET better == st.B[e.to].g < Inf /\ cand + st.B[e.to].g < st.bestMu
                    st1 == [st EXCEPT
                              !.F[e.to] = [g |-> cand, prev |-> u, prevEdge |-> i],
                              !.pqF = @ \cup {[v |-> e.to, f |-> cand + heur(g.nodes, e.to, t)]},
                              !.bestMu = IF better THEN cand + st.B[e.to].g ELSE @,
                              !.meet = IF better THEN e.to ELSE @]
                IN  relaxForwardOnEqual(st1, g, u, i + 1, t)
           ELSE relaxForwardOnEqual(st, g, u, i + 1, t)

\* The relaxation loop of the forward step over adj[u], arc by arc.
RECURSIVE relaxForward(_, _, _, _, _)
relaxForward(st, g, u, i, t) ==
  IF i >= Size(g.adj[u]) THEN st
  ELSE LET e == g.adj[u][i]
           cand == st.F[u].g + e.w
       IN  IF cand < st.F[e.to].g
           THEN LET better == st.B[e.to].g < Inf /\ cand + st.B[e.to].g < st.bestMu
                    st1 == [st EXCEPT
                              !.F[e.to] = [g |-> cand, prev |-> u, prevEdge |-> i],
                              !.pqF = @ \cup {[v |-> e.to, f |-> cand + heur(g.nodes, e.to, t)]},
                              !.bestMu = IF better THEN cand + st.B[e.to].g ELSE @,
                              !.meet = IF better THEN e.to ELSE @]
                IN  relaxForward(st1, g, u, i + 1, t)
           ELSE relaxForward(st, g, u, i + 1, t)

\* The relaxation loop of the backward step over the entries re of the
\* reverse list of u.
RECURSIVE relaxBackward(_, _, _, _, _, _)
relaxBackward(st, g, u, rev, i, s) ==
  IF i >= Size(rev) THEN st
  ELSE LET from == rev[i][1]
           idx == rev[i][2]
           e == g.adj[from][idx]
           cand == st.B[u].g + e.w
       IN  IF cand < st.B[from].g
           THEN LET better == st.F[from].g < Inf /\ cand + st.F[from].g < st.bestMu
                    st1 == [st EXCEPT
                              !.B[from] = [g |-> cand, prev |-> u, prevEdge |-> idx],
                              !.pqB = @ \cup {[v |-> from, f |-> cand + heur(g.nodes, from, s)]},
                              !.bestMu = IF better THEN cand + st.F[from].g ELSE @,
                              !.meet = IF better THEN from ELSE @]
                IN  relaxBackward(st1, g, u, rev, i + 1, s)
           ELSE relaxBackward(st, g, u, rev, i + 1, s)

searchInit(g, s, t) ==
  [F |-> [v \in DOMAIN g.nodes |-> IF v = s THEN [NoLabel EXCEPT !.g = 0] ELSE NoLabel],
   B |-> [v \in DOMAIN g.nodes |-> IF v = t THEN [NoLabel EXCEPT !.g = 0] ELSE NoLabel],
   pqF |-> {[v |-> s, f |-> heur(g.nodes, s, t)]},
   pqB |-> {[v |-> t, f |-> heur(g.nodes, t, s)]},
   bestMu |-> Inf, meet |-> -1]

\* The forward test that ends the search loop.
forwardBreak(st, g, q, t) == st.F[q.v].g + heur(g.nodes, q.v, t) > st.bestMu
backwardBreak(st, g, q, s) == st.B[q.v].g + heur(g.nodes, q.v, s) > st.bestMu

\* ------------------------------------------------------- reconstruction
RECURSIVE walkF(_, _, _)
walkF(st, v, s) ==
  IF v = s THEN << >>
  ELSE walkF(st, st.F[v].prev, s) \o << << st.F[v].prev, st.F[v].prevEdge >> >>

RECURSIVE walkB(_, _, _)
walkB(st, v, t) ==
  IF v = t THEN << >>
  ELSE << << v, st.B[v].prevEdge >> >> \o walkB(st, st.B[v].prev, t)

\* seq: the arcs (u, index in adj[u]) from s to meet, then from meet to t
pathSeq(st, s, t) == walkF(st, st.meet, s) \o walkB(st, st.meet, t)

arcEdgeId(g, z, p) ==
  LET ge == g.adj[p[1]][p[2]] IN makeEdgeId(z, ge.tileX, ge.tileY, ge.edgeIdx)

\* usedEdgeIds: the id of each arc of seq, an id equal to the one pushed last
\* left out.
RECURSIVE usedEdgeIds(_, _, _, _, _)
usedEdgeIds(g, z, sq, i, acc) ==
  IF i > Len(sq) THEN acc
  ELSE LET id == arcEdgeId(g, z, sq[i])
       IN  IF sq[i][2] < 0 \/ (acc # << >> /\ acc[Len(acc)] = id)
           THEN usedEdgeIds(g, z, sq, i + 1, acc)
           ELSE usedEdgeIds(g, z, sq, i + 1, Append(acc, id))

\* ------------------------------------------------------- result assembly
\* a + b on durations, where infinity absorbs
addDur(a, b) == IF a >= Inf \/ b >= Inf THEN Inf ELSE a + b

\* appendPoint, point by point
RECURSIVE appendPoints(_, _, _)
appendPoints(rr, pts, k) ==
  IF k > Len(pts) THEN rr
  ELSE appendPoints(
         [rr EXCEPT
            !.distance_m = IF rr.polyline # << >>
                           THEN @ + haversine(rr.polyline[Len(rr.polyline)], pts[k])
                           ELSE @,
            !.polyline = Append(@, pts[k])],
         pts, k + 1)

\* Indices of the loaded tiles whose key has column x and row y.
tilesAt(tls, x, y) == { i \in DOMAIN tls : tls[i].key.x = x /\ tls[i].key.y = y }

\* The loop over the edge ids: the id is parsed, the first loaded tile with
\* its (x, y) looked up, and that tile's edge ei appended; an id without a
\* loaded tile is passed over.
RECURSIVE assembleResult(_, _, _, _, _)
assembleResult(rr, tls, ids, i, profile) ==
  IF i > Len(ids) THEN rr
  ELSE LET k == parseEdgeId(ids[i])
           at == tilesAt(tls, k.x, k.y)
       IN  IF at = {} THEN assembleResult(rr, tls, ids, i + 1, profile)
           ELSE LET view == tls[CHOOSE j \in at : \A j2 \in at : j <= j2].view
                    pts == appendEdgeShape(view, k.edgeIdx, << >>, rr.polyline # << >>)
                    rr1 == appendPoints(rr, pts, 1)
                IN  assembleResult(
                      [rr1 EXCEPT !.duration_s =
                         addDur(@, edgeTraversalTimeSec(edgeAt(view, k.edgeIdx), profile))],
                      tls, ids, i + 1, profile)

EmptyResult == [status |-> "INTERNAL_ERROR", polyline |-> << >>, distance_m |-> 0,
                duration_s |-> 0, edge_ids |-> << >>, error_message |-> ""]

\* A failure that carries no message.
FailureWithoutMessage(st, msg) == [EmptyResult EXCEPT !.status = st]

Failure(st, msg) == [EmptyResult EXCEPT !.status = st, !.error_message = msg]

\* ================================================================ state
VARIABLES
  tileZoom,    \* RouterOptions::tileZoom
  database,    \* the tiles of the container
  profile,     \* argument of route
  waypoints,   \* argument of route
  pc,          \* position of route
  tiles,       \* the loaded (key, view) pairs
  graph,       \* nodes, adj, revAdj, q2node
  sSnap, tSnap,\* bestSnap of the first and of the last waypoint
  sNode, vS, vE,
  search,      \* F, B, pqF, pqB, bestMu, meet
  ub,          \* what the read of revAdj past its end produced
  eids,        \* usedEdgeIds
  rr,          \* the RouteResult
  store,       \* Router::Impl::store: capacity_, lru_, map_
  storeAtCall, \* the store as the running call of route found it
  calls,       \* calls of route made so far
  prev,        \* arguments and outcome of the call before the running one
  lastLoad     \* the last direct call of TileStore::load

vars == << tileZoom, database, profile, waypoints, pc, tiles, graph, sSnap, tSnap,
           sNode, vS, vE, search, ub, eids, rr, store, storeAtCall, calls, prev,
           lastLoad >>

\* What the steps of route after the loads leave alone.
storeVars == << store, storeAtCall >>
callVars == << calls, prev, lastLoad >>

inputs == << tileZoom, database, profile, waypoints, callVars >>

NoSearch == [F |-> EmptyVec, B |-> EmptyVec, pqF |-> {}, pqB |-> {}, bestMu |-> Inf, meet |-> -1]

\* The locals of route before a call.
Idle ==
  /\ pc = "start"
  /\ tiles = EmptyVec
  /\ graph = EmptyGraph
  /\ sSnap = [snap |-> NoSnap, tile |-> -1]
  /\ tSnap = [snap |-> NoSnap, tile |-> -1]
  /\ sNode = -1 /\ vS = -1 /\ vE = -1
  /\ search = NoSearch
  /\ ub = "none"
  /\ eids = << >>
  /\ rr = EmptyResult

NoPrev == [calls |-> 0]
NoLoad == [n |-> 0, access |-> << >>]

\* A fresh Router: nothing cached, no call made.
FreshRouter(cap) ==
  /\ store = NewStore(cap)
  /\ storeAtCall = NewStore(cap)
  /\ calls = 0
  /\ prev = NoPrev
  /\ lastLoad = NoLoad

Init ==
  /\ tileZoom \in {0, 1}
  /\ database \in Databases(tileZoom)
  /\ profile \in {Car, Foot}
  /\ database = BrokenTiles(tileZoom) => profile = Car
  /\ waypoints \in WaypointLists
  /\ Idle
  /\ FreshRouter(DefaultCapacity)

\* A result stored without route ending.
ReturnWithoutLeaving(result, st) ==
  /\ rr' = result /\ pc' = "build" /\ store' = destroyViews(st)

\* route returns: the result goes to the caller and the locals of the call,
\* the loaded views among them, are destroyed.
Return(result, st) ==
  /\ rr' = result /\ pc' = "done" /\ store' = destroyViews(st)

\* route, lines 604-630: the waypoint count, the tile rectangle, the loads.
RouteLoadTiles ==
  /\ pc = "start"
  /\ calls' = calls + 1
  /\ storeAtCall' = store
  /\ IF Len(waypoints) < 2
     THEN /\ Return(Failure("INTERNAL_ERROR", "need at least 2 waypoints"), store)
          /\ UNCHANGED tiles
     ELSE LET a == waypoints[1]
              b == waypoints[Len(waypoints)]
              trefs == collectTileRange(a, b, dynFrame(haversine(a, b)), tileZoom)
              loaded == LoadTiles(database, store, trefs, 0, EmptyVec)
          IN  /\ tiles' = loaded.tiles
              /\ IF Size(loaded.tiles) = 0
                 THEN Return(Failure("NO_TILE", "no tiles in range"), loaded.store)
                 ELSE /\ pc' = "build" /\ store' = loaded.store /\ UNCHANGED rr
  /\ UNCHANGED << tileZoom, database, profile, waypoints, prev, lastLoad,
                  graph, sSnap, tSnap, sNode, vS, vE, search, ub, eids >>

\* route, lines 632-633
BuildGraph ==
  /\ pc = "build"
  /\ graph' = buildGlobalGraph(profile, tiles)
  /\ pc' = "snap"
  /\ UNCHANGED << inputs, storeVars, tiles, sSnap, tSnap, sNode, vS, vE, search, ub, eids, rr >>

\* route, lines 636-643
SnapEndpoints ==
  /\ pc = "snap"
  /\ sSnap' = bestSnap(tiles, waypoints[1], profile)
  /\ tSnap' = bestSnap(tiles, waypoints[Len(waypoints)], profile)
  /\ IF ~sSnap'.snap.has \/ ~tSnap'.snap.has
     THEN Return(Failure("NO_ROUTE", "failed to snap (multi-tile)"), store)
     ELSE /\ pc' = "virtual" /\ UNCHANGED << rr, store >>
  /\ UNCHANGED << inputs, storeAtCall, tiles, graph, sNode, vS, vE, search, ub, eids >>

\* route, lines 646-712: sNode, the two virtual nodes and their half-edges,
\* and the start of the search (lines 565-570).
AddVirtualNodes ==
  /\ pc = "virtual"
  /\ LET sView == tiles[sSnap.tile].view
         tView == tiles[tSnap.tile].view
         sFrom == globalOf(graph, sView, sSnap.snap.fromNode)
         sTo == globalOf(graph, sView, sSnap.snap.toNode)
         sN == pickClosest(graph.nodes, sFrom, sTo, waypoints[1])
         s == Size(graph.nodes)
         g1 == allocVirtual(graph, sSnap.snap.proj)
         t == Size(g1.nodes)
         g2 == allocVirtual(g1, tSnap.snap.proj)
         g3 == addVS(g2, sView, sSnap.snap, sN, s, profile)
         g4 == addVE(g3, tView, tSnap.snap, t, profile)
     IN  /\ sNode' = sN /\ vS' = s /\ vE' = t
         /\ graph' = g4
         /\ search' = searchInit(g4, s, t)
  /\ pc' = "searchF"
  /\ UNCHANGED << inputs, storeVars, tiles, sSnap, tSnap, ub, eids, rr >>

\* What revAdj[v] reads.  revAdj has no entry for vS and vE (allocVirtual), so
\* for them the read is past the end of the vector: the build may stop there,
\* find an empty list, or find the stale header of a real node's list.
UbOutcomes == {"crash", "empty", "stale"}

revRead(g, v, outcome, k) ==
  IF v \in DOMAIN g.revAdj THEN g.revAdj[v]
  ELSE IF outcome = "stale" THEN g.revAdj[k] ELSE EmptyVec

\* astarGlobalBi, lines 572-576: one forward step of the loop.
ForwardStep ==
  /\ pc = "searchF"
  /\ IF search.pqF = {}
     THEN /\ pc' = "searchB" /\ UNCHANGED search
     ELSE \E q \in QMin(search.pqF) :
            LET st == [search EXCEPT !.pqF = @ \ {q}]
            IN  IF forwardBreak(st, graph, q, vE)
                THEN /\ search' = st /\ pc' = "reconstruct"
                ELSE /\ search' = relaxForward(st, graph, q.v, 0, vE)
                     /\ pc' = "searchB"
  /\ UNCHANGED << inputs, storeVars, tiles, graph, sSnap, tSnap, sNode, vS, vE, ub, eids, rr >>

\* while (!pqF.empty() || !pqB.empty())
loopAgain(st) == IF st.pqF = {} /\ st.pqB = {} THEN "reconstruct" ELSE "searchF"

\* astarGlobalBi, lines 577-581: one backward step of the loop.
BackwardStep ==
  /\ pc = "searchB"
  /\ IF search.pqB = {}
     THEN /\ pc' = loopAgain(search) /\ UNCHANGED << search, ub >>
     ELSE \E q \in QMin(search.pqB) :
            LET st == [search EXCEPT !.pqB = @ \ {q}]
            IN  IF backwardBreak(st, graph, q, vS)
                THEN /\ search' = st /\ pc' = "reconstruct" /\ UNCHANGED ub
                ELSE IF q.v \in DOMAIN graph.revAdj
                THEN /\ search' = relaxBackward(st, graph, q.v, revRead(graph, q.v, "none", 0), 0, vS)
                     /\ pc' = loopAgain(search')
                     /\ UNCHANGED ub
                ELSE \E outcome \in UbOutcomes, k \in DOMAIN graph.revAdj :
                       /\ outcome = "stale" => Size(graph.revAdj[k]) > 0
                       /\ ub' = outcome
                       /\ IF outcome = "crash"
                          THEN /\ pc' = "crashed" /\ search' = st
                          ELSE /\ search' = relaxBackward(st, graph, q.v,
                                                revRead(graph, q.v, outcome, k), 0, vS)
                               /\ pc' = loopAgain(search')
  /\ UNCHANGED << inputs, storeVars, tiles, graph, sSnap, tSnap, sNode, vS, vE, eids, rr >>

\* astarGlobalBi, lines 583-594
Reconstruct ==
  /\ pc = "reconstruct"
  /\ IF search.meet < 0
     THEN /\ Return(Failure("NO_ROUTE", "no path in multi-tile"), store)
          /\ UNCHANGED eids
     ELSE /\ eids' = usedEdgeIds(graph, tileZoom, pathSeq(search, vS, vE), 1, << >>)
          /\ pc' = "assemble"
          /\ UNCHANGED << rr, store >>
  /\ UNCHANGED << inputs, storeAtCall, tiles, graph, sSnap, tSnap, sNode, vS, vE, search, ub >>

\* route, lines 716-731
AssembleResult ==
  /\ pc = "assemble"
  /\ Return([assembleResult([EmptyResult EXCEPT !.edge_ids = eids], tiles, eids, 1, profile)
               EXCEPT !.status = "OK"], store)
  /\ UNCHANGED << inputs, storeAtCall, tiles, graph, sSnap, tSnap, sNode, vS, vE, search, ub, eids >>

Next ==
  \/ RouteLoadTiles
  \/ BuildGraph
  \/ SnapEndpoints
  \/ AddVirtualNodes
  \/ ForwardStep
  \/ BackwardStep
  \/ Reconstruct
  \/ AssembleResult

Spec == Init /\ [][Next]_vars

\* ------------------------------------------------- repeated calls of route
\* TileStore::load called once: the store after it, and the call recorded
\* (its number n, its key, the store before it, the blob it returned, and for
\* every key the number of the latest call that returned a blob for it); ok
\* tells whether a read of the backing store succeeds during the call.  The
\* caller lets go of the blob once it has looked at it.
DoLoad(key, ok) ==
  LET r == load(database, store, key, ok)
  IN  /\ store' = release(r.store, {r.blob.id})
      /\ lastLoad' = [n |-> lastLoad.n + 1, key |-> key, ok |-> ok,
                      before |-> store, blob |-> r.blob,
                      access |-> IF r.blob.id = 0 THEN lastLoad.access
                                 ELSE (key :> lastLoad.n + 1) @@ lastLoad.access]

Reverse(sq) == [i \in 1 .. Len(sq) |-> sq[Len(sq) + 1 - i]]

\* The one key outside the stored network another query loads.
AbsentKey(z) == TileKey(z, 0, 0)
OtherKeys(z) == IF z = 0 THEN HomeKeys(z) ELSE HomeKeys(z) \cup {AbsentKey(z)}

\* A load another query makes on the Router's store between two calls of
\* route.
OtherQueryLoad ==
  /\ pc \in {"start", "done"}
  /\ lastLoad.n < MaxOtherLoads
  /\ \E key \in OtherKeys(tileZoom) : DoLoad(key, TRUE)
  /\ UNCHANGED << tileZoom, database, profile, waypoints, pc, tiles, graph, sSnap, tSnap,
                  sNode, vS, vE, search, ub, eids, rr, storeAtCall, calls, prev >>

\* The next call of route on the same Router: the same waypoints, the same in
\* reverse order, or too few of them.
CallAgain ==
  /\ pc = "done"
  /\ calls < MaxCalls
  /\ prev' = [calls |-> calls, profile |-> profile, waypoints |-> waypoints,
              rr |-> rr, ub |-> ub]
  /\ waypoints' \in {waypoints, Reverse(waypoints), << >>,
                    IF waypoints = << >> THEN << >> ELSE << waypoints[1] >>}
  /\ pc' = "start"
  /\ tiles' = EmptyVec
  /\ graph' = EmptyGraph
  /\ sSnap' = [snap |-> NoSnap, tile |-> -1]
  /\ tSnap' = [snap |-> NoSnap, tile |-> -1]
  /\ sNode' = -1 /\ vS' = -1 /\ vE' = -1
  /\ search' = NoSearch
  /\ ub' = "none"
  /\ eids' = << >>
  /\ rr' = EmptyResult
  /\ UNCHANGED << tileZoom, database, profile, store, storeAtCall, calls, lastLoad >>

RepeatInit ==
  /\ tileZoom \in {0, 1}
  /\ database \in { WorldTiles(tileZoom, kW, "two", "slow") : kW \in {"two", "one"} }
  /\ profile = Car
  /\ waypoints \in { << Coord(0, -1), Coord(0, 3) >>, << Coord(0, 1), Coord(0, 6) >>,
                      << Coord(0, -2), Coord(0, 0) >>, << >> }
  /\ Idle
  /\ \E cap \in 0 .. 2 : FreshRouter(cap)

RepeatNext ==
  \/ Next
  \/ OtherQueryLoad
  \/ CallAgain

RepeatSpec == RepeatInit /\ [][RepeatNext]_vars

\* ------------------------------------------------- the store on its own
StoreZoom == 2

\* MaxCapacity + 1 stored keys and one that is not stored.
StoredKeys == { TileKey(StoreZoom, x, 0) : x \in 0 .. MaxCapacity }
StoreKeys == StoredKeys \cup {TileKey(StoreZoom, 0, 1)}
StoreTiles == { NoEdgeTile(k) : k \in StoredKeys }

StoreInit ==
  /\ tileZoom = StoreZoom
  /\ database = StoreTiles
  /\ profile = Car
  /\ waypoints = << >>
  /\ Idle
  /\ \E cap \in 0 .. MaxCapacity : FreshRouter(cap)

\* TileStore::load called by the owner of the store.
StoreLoad ==
  /\ lastLoad.n < MaxLoads
  /\ \E key \in StoreKeys, ok \in BOOLEAN : DoLoad(key, ok)
  /\ UNCHANGED << tileZoom, database, profile, waypoints, pc, tiles, graph, sSnap, tSnap,
                  sNode, vS, vE, search, ub, eids, rr, storeAtCall, calls, prev >>

StoreSpec == StoreInit /\ [][StoreLoad]_vars

\* ================================================== the edge id functions
\* edgeid::make and edgeid::parse on their own: two argument lists are
\* packed, then the two ids are parsed.  eids holds the two calls: the
\* arguments, then the id, then the parsed fields.
EdgeIdZ == {0, 1, 14, 255}
EdgeIdXY == {0, 1, 4095, 4096, 1048575}
EdgeIdE == {0, 1, 4095, 4096, 65535}
EdgeIdArgs ==
  { [z |-> z, x |-> x, y |-> y, edgeIdx |-> e] :
      z \in EdgeIdZ, x \in EdgeIdXY, y \in {0, 4096, 1048575}, e \in EdgeIdE }

EdgeIdInit ==
  /\ tileZoom = 0
  /\ database = {}
  /\ profile = Car
  /\ waypoints = << >>
  /\ tiles = EmptyVec
  /\ graph = EmptyGraph
  /\ sSnap = [snap |-> NoSnap, tile |-> -1]
  /\ tSnap = [snap |-> NoSnap, tile |-> -1]
  /\ sNode = -1 /\ vS = -1 /\ vE = -1
  /\ search = NoSearch
  /\ ub = "none"
  /\ rr = EmptyResult
  /\ FreshRouter(DefaultCapacity)
  /\ pc = "make"
  /\ \E a \in EdgeIdArgs, b \in {c \in EdgeIdArgs : c.z = 14 /\ c.x \in {1, 4096}} :
       eids = << a, b >>

\* Both argument lists are packed.
MakeEdgeIds ==
  /\ pc = "make"
  /\ pc' = "parse"
  /\ eids' = [i \in 1 .. 2 |->
               eids[i] @@
               [id |-> edgeid_make(eids[i].z, eids[i].x, eids[i].y, eids[i].edgeIdx)]]
  /\ UNCHANGED << inputs, storeVars, tiles, graph, sSnap, tSnap, sNode, vS, vE,
                  search, ub, rr >>

\* Both ids are parsed.
ParseEdgeIds ==
  /\ pc = "parse"
  /\ pc' = "done"
  /\ eids' = [i \in 1 .. 2 |-> eids[i] @@ [parsed |-> edgeid_parse(eids[i].id)]]
  /\ UNCHANGED << inputs, storeVars, tiles, graph, sSnap, tSnap, sNode, vS, vE,
                  search, ub, rr >>

EdgeIdNext == MakeEdgeIds \/ ParseEdgeIds
EdgeIdSpec == EdgeIdInit /\ [][EdgeIdNext]_vars

\* ================================================== a Tile View on its own
\* inEdgesOf called on one TileView, call after call.  The view is tiles[0]:
\* its record carries inAdj_ (built is FALSE while the pointer is null) and
\* builds, the number of times the reverse adjacency was filled.
MaxViewCalls == 3

NullInAdj == [built |-> FALSE, lists |-> EmptyVec]

\* The loop of ensureInAdjBuilt over the edges.
RECURSIVE fillInAdj(_, _, _)
fillInAdj(lists, view, ei) ==
  IF ei >= edgeCount(view) THEN lists
  ELSE LET to == edgeAt(view, ei).to_node
       IN  fillInAdj(IF to < nodeCount(view)
                     THEN [lists EXCEPT ![to] = Append(@, ei)]
                     ELSE lists,
                     view, ei + 1)

\* An ensureInAdjBuilt that fills the vector at every call.
ensureInAdjBuiltEveryCall(tv) ==
  [tv EXCEPT !.inAdj_ = [built |-> TRUE,
                         lists |-> fillInAdj([n \in 0 .. nodeCount(tv.view) - 1 |-> << >>],
                                             tv.view, 0)],
             !.builds = @ + 1]

\* TileView::ensureInAdjBuilt
ensureInAdjBuilt(tv) ==
  IF tv.inAdj_.built THEN tv
  ELSE [tv EXCEPT !.inAdj_ = [built |-> TRUE,
                              lists |-> fillInAdj([n \in 0 .. nodeCount(tv.view) - 1 |-> << >>],
                                                  tv.view, 0)],
                  !.builds = @ + 1]

\* TileView::inEdgesOf: the view after the call and the vector returned.
inEdgesOf(tv, nodeIdx) ==
  LET tv1 == ensureInAdjBuilt(tv)
  IN  [view |-> tv1, result |-> tv1.inAdj_.lists[nodeIdx]]

\* The tiles a view is built on: every tile of the data sets with a node.
ViewTiles == { t \in UNION (Databases(0) \cup Databases(1)) : nodeCount(t) > 0 }

ViewInit ==
  /\ tileZoom \in {0, 1}
  /\ \E t \in ViewTiles :
       /\ t.z = tileZoom
       /\ database = {t}
       /\ tiles = MkVec(<< [key |-> TileKey(t.z, t.x, t.y), view |-> t, buffer_ |-> 1,
                           inAdj_ |-> NullInAdj, builds |-> 0] >>)
  /\ profile = Car
  /\ waypoints = << >>
  /\ pc = "view"
  /\ graph = EmptyGraph
  /\ sSnap = [snap |-> NoSnap, tile |-> -1]
  /\ tSnap = [snap |-> NoSnap, tile |-> -1]
  /\ sNode = -1 /\ vS = -1 /\ vE = -1
  /\ search = NoSearch
  /\ ub = "none"
  /\ eids = << >>
  /\ rr = EmptyResult
  /\ FreshRouter(DefaultCapacity)

\* One call of inEdgesOf for a node of the tile; prev keeps the call.
InEdgesOf ==
  /\ pc = "view"
  /\ calls < MaxViewCalls
  /\ \E n \in 0 .. nodeCount(tiles[0].view) - 1 :
       LET r == inEdgesOf(tiles[0], n)
       IN  /\ tiles' = [tiles EXCEPT ![0] = r.view]
           /\ prev' = [calls |-> calls, node |-> n, result |-> r.result,
                       before |-> tiles[0].inAdj_]
  /\ calls' = calls + 1
  /\ UNCHANGED << tileZoom, database, profile, waypoints, pc, graph, sSnap, tSnap,
                  sNode, vS, vE, search, ub, eids, rr, storeVars, lastLoad >>

ViewSpec == ViewInit /\ [][InEdgesOf]_vars

\* ============================================== appendEdgeShape on its own
\* appendEdgeShape called on one view, call after call, on the same buffer
\* (rr.polyline); prev keeps the last call.
MaxShapeCalls == 3

\* "CE@oA" spells the points (2, 3) and (1, 43) in units of 1e-5 degrees,
\* "~C_D" the one point (-80, 80).
TwoPointString == << 67, 69, 64, 111, 65 >>
OnePointString == << 126, 67, 95, 68 >>

\* A tile whose edges carry every form of geometry: none, a shape slice, an
\* encoded polyline of two points, both, an encoded polyline of one point
\* and an empty encoded polyline.
ShapeTile ==
  LET plain == EdgeOfKind("two", 0, 1, 2, << >>)
      shaped == EdgeOfKind("two", 0, 1, 2, << Coord(0, 0), Coord(1, 1), Coord(0, 2) >>)
      enc(e, s) == e @@ [encoded_polyline |-> s]
  IN  LandTile(0, 0, 0, MkVec(<< TileNode(0), TileNode(2) >>),
               MkVec(<< plain, shaped, enc(plain, TwoPointString), enc(shaped, TwoPointString),
                        enc(plain, OnePointString), enc(plain, << >>) >>))

ShapeInit ==
  /\ tileZoom = 0
  /\ database = {ShapeTile}
  /\ tiles = MkVec(<< [key |-> TileKey(0, 0, 0), view |-> ShapeTile, buffer_ |-> 1] >>)
  /\ profile = Car
  /\ waypoints = << >>
  /\ pc = "shape"
  /\ graph = EmptyGraph
  /\ sSnap = [snap |-> NoSnap, tile |-> -1]
  /\ tSnap = [snap |-> NoSnap, tile |-> -1]
  /\ sNode = -1 /\ vS = -1 /\ vE = -1
  /\ search = NoSearch
  /\ ub = "none"
  /\ eids = << >>
  /\ rr = EmptyResult
  /\ FreshRouter(DefaultCapacity)

\* One call of appendEdgeShape.
AppendEdgeShape ==
  /\ pc = "shape"
  /\ calls < MaxShapeCalls
  /\ \E ei \in 0 .. edgeCount(tiles[0].view) - 1, skipFirst \in BOOLEAN :
       /\ rr' = [rr EXCEPT !.polyline = appendEdgeShape(tiles[0].view, ei, @, skipFirst)]
       /\ prev' = [calls |-> calls, edgeIdx |-> ei, skipFirst |-> skipFirst,
                   out |-> rr.polyline]
  /\ calls' = calls + 1
  /\ UNCHANGED << tileZoom, database, profile, waypoints, pc, tiles, graph, sSnap, tSnap,
                  sNode, vS, vE, search, ub, eids, storeVars, lastLoad >>

ShapeSpec == ShapeInit /\ [][AppendEdgeShape]_vars

\* ======================================================= claim vocabulary
Returned == pc = "done"
ReturnedOK == pc = "done" /\ rr.status = "OK"

\* The arcs (u, i) of the assembled graph.
ArcsOf(g) == UNION { { << u, i >> : i \in DOMAIN g.adj[u] } : u \in DOMAIN g.adj }
arcAt(g, a) == g.adj[a[1]][a[2]]

SetMin(S) == CHOOSE x \in S : \A y \in S : x <= y

\* Cheapest cost of a directed path from s to every node (Bellman-Ford, one
\* arc at a time; back = TRUE gives the cheapest cost from every node to s).
RECURSIVE relaxPass(_, _, _, _, _)
relaxPass(d, g, u, i, back) ==
  IF u >= Size(g.adj) THEN d
  ELSE IF i >= Size(g.adj[u]) THEN relaxPass(d, g, u + 1, 0, back)
  ELSE LET e == g.adj[u][i]
           a == IF back THEN e.to ELSE u
           b == IF back THEN u ELSE e.to
       IN  IF d[a] < Inf /\ d[a] + e.w < d[b]
           THEN relaxPass([d EXCEPT ![b] = d[a] + e.w], g, u, i, back)
           ELSE relaxPass(d, g, u, i + 1, back)

RECURSIVE cheapest(_, _, _, _)
cheapest(d, g, n, back) ==
  IF n = 0 THEN d ELSE cheapest(relaxPass(d, g, 0, 0, back), g, n - 1, back)

costFrom(g, s) ==
  cheapest([v \in DOMAIN g.nodes |-> IF v = s THEN 0 ELSE Inf], g, Size(g.nodes), FALSE)

costTo(g, t) ==
  cheapest([v \in DOMAIN g.nodes |-> IF v = t THEN 0 ELSE Inf], g, Size(g.nodes), TRUE)

\* Both heuristics of the search never exceed the true remaining cost.
HeuristicAdmissible ==
  LET toE == costTo(graph, vE)
      fromS == costFrom(graph, vS)
  IN  \A v \in DOMAIN graph.nodes :
        /\ toE[v] < Inf => heur(graph.nodes, v, vE) <= toE[v]
        /\ fromS[v] < Inf => heur(graph.nodes, v, vS) <= fromS[v]

RECURSIVE seqWeight(_, _, _)
seqWeight(g, sq, i) ==
  IF i > Len(sq) THEN 0 ELSE arcAt(g, sq[i]).w + seqWeight(g, sq, i + 1)

\* The reconstructed arc sequence of a finished search.
ThePath == pathSeq(search, vS, vE)

\* The tile edge a real arc was made from.
tileOfArc(a) ==
  LET ge == arcAt(graph, a)
      i == CHOOSE j \in tilesAt(tiles, ge.tileX, ge.tileY) : TRUE
  IN  tiles[i]
edgeOfArc(a) == edgeAt(tileOfArc(a).view, arcAt(graph, a).edgeIdx)

sView == tiles[sSnap.tile].view
tView == tiles[tSnap.tile].view
sHost == edgeAt(sView, sSnap.snap.edgeIdx)
tHost == edgeAt(tView, tSnap.snap.edgeIdx)

\* ================================================================ claims

\* C1: with an admissible heuristic every OK result rests on a search whose
\* cost bestMu is the cheapest cost of a directed vS -> vE path of the
\* assembled graph (what a plain Dijkstra search finds).
C1_OptimalCost ==
  (ReturnedOK /\ HeuristicAdmissible) => search.bestMu = costFrom(graph, vS)[vE]

\* C2: the assembled graph has no arc that runs against a oneway edge -- a
\* real arc of a oneway edge leads from its from_node to its to_node, a
\* half-edge on a oneway host edge enters the virtual node from from_node or
\* leaves it toward to_node -- and the reconstructed path of an OK result is
\* made of arcs of that graph.
C2_NoArcAgainstOneway ==
  /\ \A a \in ArcsOf(graph) :
       LET ge == arcAt(graph, a)
       IN  IF ge.isVirt = 0
           THEN edgeOfArc(a).oneway =>
                  /\ a[1] = globalOf(graph, tileOfArc(a).view, edgeOfArc(a).from_node)
                  /\ ge.to = globalOf(graph, tileOfArc(a).view, edgeOfArc(a).to_node)
           ELSE /\ (ge.to = vS /\ sHost.oneway) => a[1] = globalOf(graph, sView, sHost.from_node)
                /\ (a[1] = vS /\ sHost.oneway) => ge.to = globalOf(graph, sView, sHost.to_node)
                /\ (ge.to = vE /\ tHost.oneway) => a[1] = globalOf(graph, tView, tHost.from_node)
  /\ ReturnedOK => \A i \in 1 .. Len(ThePath) : ThePath[i] \in ArcsOf(graph)

\* Witness of C2: an OK route, found with the reverse list of vE read as
\* empty, that starts on a oneway edge and drives a real arc of a oneway edge.
C2_Witness ==
  /\ ReturnedOK
  /\ ub = "empty"
  /\ sHost.oneway
  /\ \E i \in 1 .. Len(ThePath) :
       arcAt(graph, ThePath[i]).isVirt = 0 /\ edgeOfArc(ThePath[i]).oneway

\* C3: for every OK result duration_s is the total weight of the
\* reconstructed vS -> vE path, half-edges included.
C3_DurationIsPathWeight ==
  ReturnedOK => rr.duration_s = seqWeight(graph, ThePath, 1)

\* C4: for every OK result the polyline starts at the projection point of the
\* first waypoint and ends at the projection point of the last one.
C4_PolylineEndsAtSnaps ==
  ReturnedOK =>
    /\ rr.polyline # << >>
    /\ rr.polyline[1] = sSnap.snap.proj
    /\ rr.polyline[Len(rr.polyline)] = tSnap.snap.proj

\* C5: every OK result has at least two polyline points, at least one edge
\* id, and non-negative distance and duration.
C5_OkResultPopulated ==
  ReturnedOK =>
    /\ Len(rr.polyline) >= 2
    /\ Len(rr.edge_ids) >= 1
    /\ rr.distance_m >= 0
    /\ rr.duration_s >= 0

\* C6: every edge id of an OK result names an edge of a loaded tile at the
\* router's zoom that passes the profile's access check.
C6_EdgeIdsDecode ==
  ReturnedOK =>
    \A k \in 1 .. Len(rr.edge_ids) :
      LET id == parseEdgeId(rr.edge_ids[k])
      IN  /\ id.z = tileZoom
          /\ \E j \in tilesAt(tiles, id.x, id.y) :
               /\ id.edgeIdx < edgeCount(tiles[j].view)
               /\ maskBit(edgeAt(tiles[j].view, id.edgeIdx), profile)
               /\ speedOf(edgeAt(tiles[j].view, id.edgeIdx), profile) > 0

\* The id of the tile edge an arc stands for: its own edge for a real arc,
\* the host edge of the snap for a half-edge.
hostEdgeId(a) ==
  LET ge == arcAt(graph, a)
  IN  IF ge.isVirt = 0 THEN makeEdgeId(tileZoom, ge.tileX, ge.tileY, ge.edgeIdx)
      ELSE IF a[1] = vS \/ ge.to = vS
      THEN makeEdgeId(tileZoom, tiles[sSnap.tile].key.x, tiles[sSnap.tile].key.y, sSnap.snap.edgeIdx)
      ELSE makeEdgeId(tileZoom, tiles[tSnap.tile].key.x, tiles[tSnap.tile].key.y, tSnap.snap.edgeIdx)

RECURSIVE dropRepeats(_, _, _)
dropRepeats(ids, i, acc) ==
  IF i > Len(ids) THEN acc
  ELSE IF acc # << >> /\ acc[Len(acc)] = ids[i] THEN dropRepeats(ids, i + 1, acc)
  ELSE dropRepeats(ids, i + 1, Append(acc, ids[i]))

\* C7: edge_ids of an OK result is the path's list of edge ids in which each
\* half-edge stands for its host edge and an id equal to its predecessor is
\* dropped.
C7_HalfEdgesCarryHostId ==
  ReturnedOK =>
    rr.edge_ids = dropRepeats([i \in 1 .. Len(ThePath) |-> hostEdgeId(ThePath[i])], 1, << >>)

\* C8: no two successive polyline vertices of an OK result are identical.
C8_NoRepeatedVertex ==
  ReturnedOK =>
    \A i \in 1 .. Len(rr.polyline) - 1 : rr.polyline[i] # rr.polyline[i + 1]

\* p lies on the polyline: on one of its vertices or segments.
onPolyline(p, poly) ==
  \/ \E i \in 1 .. Len(poly) : poly[i] = p
  \/ \E i \in 1 .. Len(poly) - 1 :
       /\ poly[i].lat = p.lat /\ poly[i + 1].lat = p.lat
       /\ Min2(poly[i].lon, poly[i + 1].lon) <= p.lon
       /\ p.lon <= Max2(poly[i].lon, poly[i + 1].lon)

snapOf(k) == bestSnap(tiles, waypoints[k], profile).snap

RECURSIVE viaDistance(_)
viaDistance(k) ==
  IF k >= Len(waypoints) THEN 0
  ELSE haversine(snapOf(k).proj, snapOf(k + 1).proj) + viaDistance(k + 1)

\* C9: an OK result for three or more waypoints passes through the snap
\* point of every intermediate waypoint, and its distance_m, the sum of the
\* pairwise segment distances, is at least the sum of the straight distances
\* between successive snap points.
C9_ViaWaypoints ==
  (ReturnedOK /\ Len(waypoints) >= 3) =>
    /\ \A k \in 2 .. Len(waypoints) - 1 :
         snapOf(k).has /\ onPolyline(snapOf(k).proj, rr.polyline)
    /\ rr.distance_m >= viaDistance(1)

\* C10: when both endpoints snapped and the assembled graph has no directed
\* path from vS to vE, route returns NO_ROUTE.
C10_NoPathNoRoute ==
  (Returned /\ sSnap.snap.has /\ tSnap.snap.has /\ vE >= 0
     /\ costFrom(graph, vS)[vE] >= Inf)
  => rr.status = "NO_ROUTE"

\* The keys of the tile rectangle of the running call.
QueryKeys ==
  LET a == waypoints[1]
      b == waypoints[Len(waypoints)]
      trefs == collectTileRange(a, b, dynFrame(haversine(a, b)), tileZoom)
  IN  { trefs[i] : i \in DOMAIN trefs }

\* Some key of the rectangle holds a blob with an edge and two nodes.
UsableInRange ==
  \E k \in QueryKeys : \E t \in storeLoad(database, k) :
    Size(t.edges) >= 1 /\ Size(t.nodes) >= 2

\* C11: a call with two or more waypoints returns NO_TILE exactly when no
\* key of its tile rectangle holds a usable tile, and once a tile is loaded
\* the status is not NO_TILE.
C11_NoTileIffNothingUsable ==
  /\ (Returned /\ Len(waypoints) >= 2) => (rr.status = "NO_TILE" <=> ~UsableInRange)
  /\ (Returned /\ Size(tiles) > 0) => rr.status # "NO_TILE"

\* Witness of C11: NO_TILE returned although the rectangle holds a blob.
C11_Witness ==
  /\ Returned /\ rr.status = "NO_TILE"
  /\ \E k \in QueryKeys : storeLoad(database, k) # {}

\* Some edge of a loaded tile passes the profile's access check.
SomeEdgeAllowed ==
  \E i \in DOMAIN tiles : \E ei \in DOMAIN tiles[i].view.edges :
    LET e == tiles[i].view.edges[ei]
    IN  maskBit(e, profile) /\ speedOf(e, profile) > 0

\* C12: when tiles were loaded and none of their edges passes the profile's
\* access check, route returns NO_ROUTE with a non-empty error_message.
C12_NoAllowedEdgeNoRoute ==
  (Returned /\ Size(tiles) > 0 /\ ~SomeEdgeAllowed) =>
    /\ rr.status = "NO_ROUTE"
    /\ rr.error_message # ""

\* Witness of C12: a car query over loaded tiles that hold foot-only edges.
C12_Witness ==
  /\ Returned /\ Size(tiles) > 0 /\ ~SomeEdgeAllowed
  /\ profile = Car
  /\ \E i \in DOMAIN tiles : \E ei \in DOMAIN tiles[i].view.edges :
       maskBit(tiles[i].view.edges[ei], Foot)
  /\ rr.status = "NO_ROUTE"

\* C13: a call of route with fewer than two waypoints ends at once with
\* INTERNAL_ERROR and a non-empty error_message, and leaves the store
\* (cached keys, blobs, recency order, reads of the backing store) as it was.
C13_TooFewWaypoints ==
  [][(RouteLoadTiles /\ Len(waypoints) < 2) =>
       /\ pc' = "done"
       /\ rr'.status = "INTERNAL_ERROR"
       /\ rr'.error_message # ""
       /\ store' = store]_vars

\* Witness of C13: such a call returned on a Router whose cache holds tiles.
C13_Witness ==
  /\ Returned /\ Len(waypoints) < 2
  /\ rr.status = "INTERNAL_ERROR"
  /\ store = storeAtCall
  /\ Len(store.lru_) >= 1

\* Every edge of the tile joins two of the tile's nodes.
WellFormed(t) ==
  \A ei \in DOMAIN t.edges :
    t.edges[ei].from_node < Size(t.nodes) /\ t.edges[ei].to_node < Size(t.nodes)

\* C14: when a blob loaded for the query is structurally invalid (an edge
\* whose to_node is no node of the tile), route returns DATA_ERROR.
C14_InvalidBlobIsDataError ==
  (Returned /\ Len(waypoints) >= 2
     /\ \E k \in QueryKeys : \E t \in storeLoad(database, k) : ~WellFormed(t))
  => rr.status = "DATA_ERROR"

\* C15: a call whose start and end coordinate are the same snappable point
\* returns OK with a polyline of one point or of equal end points, with
\* distance_m = 0 and duration_s = 0.
C15_SamePointZeroRoute ==
  (Returned /\ Len(waypoints) = 2 /\ waypoints[1] = waypoints[2]
     /\ sSnap.snap.has /\ tSnap.snap.has)
  => /\ rr.status = "OK"
     /\ Len(rr.polyline) >= 1
     /\ rr.polyline[1] = rr.polyline[Len(rr.polyline)]
     /\ rr.distance_m = 0
     /\ rr.duration_s = 0

\* The running call repeats the call before it.
SameCallAgain ==
  /\ prev.calls >= 1
  /\ prev.profile = profile
  /\ prev.waypoints = waypoints

\* C16: a call of route with the profile and waypoints of the call before it,
\* on the same Router and container, returns the same status, distance_m,
\* duration_s, edge_ids and polyline, whatever the cache held at either call.
C16_SameCallSameResult ==
  (Returned /\ SameCallAgain) =>
    /\ rr.status = prev.rr.status
    /\ rr.distance_m = prev.rr.distance_m
    /\ rr.duration_s = prev.rr.duration_s
    /\ rr.edge_ids = prev.rr.edge_ids
    /\ rr.polyline = prev.rr.polyline

\* No edge of the container is oneway.
NoOneway == \A t \in database : \A ei \in DOMAIN t.edges : ~t.edges[ei].oneway

\* The running call asks for the way back of the call before it.
ReverseCall ==
  /\ prev.calls >= 1
  /\ prev.profile = profile
  /\ Len(waypoints) >= 2
  /\ waypoints = Reverse(prev.waypoints)

\* C17: over a network without oneway edges the route from B to A has the
\* polyline of the route from A to B in reverse vertex order and the same
\* duration_s.
C17_ReverseRoute ==
  (Returned /\ ReverseCall /\ NoOneway /\ prev.rr.status = "OK") =>
    /\ rr.status = "OK"
    /\ rr.polyline = Reverse(prev.rr.polyline)
    /\ rr.duration_s = prev.rr.duration_s

\* The keys a store retains.
Cached(st) == DOMAIN st.map_

\* The last direct load was a miss that the backing store resolved.
MissResolved ==
  /\ lastLoad.n >= 1
  /\ lastLoad.key \notin Cached(lastLoad.before)
  /\ lastLoad.blob.id # 0

\* C18: when load resolves a miss while the cache holds capacity entries
\* (capacity >= 1), exactly one entry leaves the cache, it is the one whose
\* latest access is the oldest, and the loaded key is the most recent one.
C18_EvictsLeastRecentlyUsed ==
  (MissResolved /\ lastLoad.before.capacity_ >= 1
     /\ Cardinality(Cached(lastLoad.before)) = lastLoad.before.capacity_)
  => /\ \E victim \in Cached(lastLoad.before) :
          /\ Cached(store) = (Cached(lastLoad.before) \ {victim}) \cup {lastLoad.key}
          /\ \A o \in Cached(lastLoad.before) :
               lastLoad.access[victim] <= lastLoad.access[o]
     /\ store.lru_[1] = lastLoad.key
     /\ store.map_[lastLoad.key] = lastLoad.blob

\* Witness of C18: an eviction whose victim was not the entry cached first,
\* an older entry having been hit in between.
C18_Witness ==
  /\ MissResolved
  /\ Cardinality(Cached(lastLoad.before)) = lastLoad.before.capacity_
  /\ lastLoad.before.capacity_ >= 2
  /\ \E victim \in Cached(lastLoad.before) \ Cached(store) :
       \E o \in Cached(store) \ {lastLoad.key} :
         lastLoad.before.map_[o].id < lastLoad.before.map_[victim].id

\* C19: after any sequence of loads the cache retains at most capacity
\* entries and no key twice: lru_ lists exactly the keys of map_, each once.
C19_CacheBounded ==
  /\ Cardinality(Cached(store)) <= store.capacity_
  /\ Len(store.lru_) <= store.capacity_
  /\ \A i, j \in 1 .. Len(store.lru_) : store.lru_[i] = store.lru_[j] => i = j
  /\ { store.lru_[i] : i \in 1 .. Len(store.lru_) } = Cached(store)

\* Witness of C19: a full cache of two or more entries after more resolved
\* misses than it has room for, a hit and a load of an absent key.
C19_Witness ==
  /\ store.capacity_ >= 2
  /\ Len(store.lru_) = store.capacity_
  /\ store.made > store.capacity_
  /\ store.dbReads > store.made
  /\ lastLoad.n > store.dbReads

\* The last direct load was a hit.
WasHit == lastLoad.n >= 1 /\ lastLoad.key \in Cached(lastLoad.before)

\* C20: a hit makes the key the most recent one, keeps the order of the
\* other entries and the cached keys and blobs, reads nothing from the
\* backing store and returns the blob object cached for the key.
C20_HitPromotesOnly ==
  WasHit =>
    /\ store.lru_[1] = lastLoad.key
    /\ eraseKey(store.lru_, lastLoad.key) = eraseKey(lastLoad.before.lru_, lastLoad.key)
    /\ Len(store.lru_) = Len(lastLoad.before.lru_)
    /\ store.map_ = lastLoad.before.map_
    /\ store.dbReads = lastLoad.before.dbReads
    /\ store.made = lastLoad.before.made
    /\ lastLoad.blob = lastLoad.before.map_[lastLoad.key]

\* Witness of C20: a hit on the least recent of three cached entries.
C20_Witness ==
  /\ WasHit
  /\ Len(lastLoad.before.lru_) = 3
  /\ lastLoad.before.lru_[3] = lastLoad.key
  /\ store.lru_[1] = lastLoad.key

\* The last direct load asked for a key the backing store holds.
AskedStored ==
  lastLoad.n >= 1 /\ lastLoad.ok /\ storeLoad(database, lastLoad.key) # {}

MissUnresolved ==
  /\ lastLoad.n >= 1
  /\ lastLoad.key \notin Cached(lastLoad.before)
  /\ (storeLoad(database, lastLoad.key) = {} \/ ~lastLoad.ok)

\* C22: a load of a key that is absent from the backing store, or whose read
\* fails, returns null and leaves lru_ and map_ as they were; no entry for
\* the key is kept, so the next load of the key reads the backing store again.
C22_FailedLoadLeavesCache ==
  /\ MissUnresolved =>
       /\ lastLoad.blob = NullBlob
       /\ store.lru_ = lastLoad.before.lru_
       /\ store.map_ = lastLoad.before.map_
       /\ store.dbReads = lastLoad.before.dbReads + 1
       /\ lastLoad.key \notin Cached(store)
  /\ \A k \in Cached(store) : store.map_[k].id # 0

\* Witness of C22: the read of a stored key failed while the cache was full.
C22_Witness ==
  /\ MissUnresolved
  /\ ~lastLoad.ok
  /\ storeLoad(database, lastLoad.key) # {}
  /\ lastLoad.before.capacity_ >= 2
  /\ Len(lastLoad.before.lru_) = lastLoad.before.capacity_
  /\ store.lru_ = lastLoad.before.lru_

\* What reading the backing store directly answers for the key: the stored
\* bytes, or nothing when the key is absent.
directRead(key) == storeLoad(database, key)

ViewsAlive == pc \notin {"start", "done"}

\* C24: the buffer of every view a running call of route holds is alive and
\* holds the bytes stored under the view's key, whether or not later loads
\* have evicted the key; no buffer the cache or a view references has been
\* destroyed, so a destroyed buffer is one nothing references.
C24_HeldBufferStaysAlive ==
  /\ store.freed \cap (store.held \cup cachedIds(store)) = {}
  /\ ViewsAlive =>
       \A i \in DOMAIN tiles :
         /\ tiles[i].buffer_ \in store.held
         /\ tiles[i].buffer_ \notin store.freed
         /\ tiles[i].view \in directRead(tiles[i].key)
  /\ ~ViewsAlive => store.held = {}

\* Witness of C24: a caching store evicted the key of a view while the call
\* that holds the view goes on, and destroyed a buffer nothing referenced.
C24_Witness ==
  /\ ViewsAlive
  /\ store.capacity_ >= 1
  /\ \E i \in DOMAIN tiles :
       /\ tiles[i].key \notin Cached(store)
       /\ tiles[i].buffer_ \notin store.freed
  /\ store.freed # {}

\* The arguments of a call of edgeid::make.
argsOf(c) == [z |-> c.z, x |-> c.x, y |-> c.y, edgeIdx |-> c.edgeIdx]

\* The 64 bits [z:8][x:20][y:20][edge_index:16] of the fields, the most
\* significant bit first.
layoutBits(c) ==
  [j \in 1 .. 64 |->
     IF j <= 8 THEN (c.z \div (2 ^ (8 - j))) % 2
     ELSE IF j <= 28 THEN (c.x \div (2 ^ (28 - j))) % 2
     ELSE IF j <= 48 THEN (c.y \div (2 ^ (48 - j))) % 2
     ELSE (c.edgeIdx \div (2 ^ (64 - j))) % 2]

\* C25: for fields in range the id made has the bits [z:8][x:20][y:20]
\* [edge_index:16], parse gives the fields back, two different argument lists
\* give two different ids, and the id the router makes from the same fields
\* (makeEdgeId, kept as its fields) is the one edgeid::make packs.
C25_EdgeIdRoundTrip ==
  /\ pc \in {"parse", "done"} =>
       /\ \A i \in 1 .. 2 :
            /\ eids[i].id = layoutBits(eids[i])
            /\ parseEdgeId(makeEdgeId(eids[i].z, eids[i].x, eids[i].y, eids[i].edgeIdx))
                 = edgeid_parse(eids[i].id)
       /\ eids[1].id = eids[2].id => argsOf(eids[1]) = argsOf(eids[2])
  /\ pc = "done" => \A i \in 1 .. 2 : eids[i].parsed = argsOf(eids[i])

\* Witness of C25: two ids that differ only above bit 12 of the edge index
\* were made and parsed back, one of them with every bit of y and of the
\* edge index set.
C25_Witness ==
  /\ pc = "done"
  /\ eids[1].z = 14 /\ eids[1].x = 4096 /\ eids[1].y = 1048575
  /\ eids[1].edgeIdx = 65535
  /\ eids[2] = [eids[1] EXCEPT !.edgeIdx = 4095, !.id = eids[2].id, !.parsed = eids[2].parsed]
  /\ eids[1].parsed = argsOf(eids[1])
  /\ eids[1].id # eids[2].id

\* The priority the loop computes for an entry when it pops it.
priorityF(st, q) == st.F[q.v].g + heur(graph.nodes, q.v, vE)
priorityB(st, q) == st.B[q.v].g + heur(graph.nodes, q.v, vS)

\* The step ends the loop at the forward test, or at the backward one.
ForwardBroke == pc = "searchF" /\ pc' = "reconstruct"
BackwardBroke ==
  /\ pc = "searchB" /\ pc' = "reconstruct"
  /\ \E q \in QMin(search.pqB) :
       /\ search' = [search EXCEPT !.pqB = @ \ {q}]
       /\ backwardBreak(search', graph, q, vS)

\* C26: when a test ends the loop, the other frontier has no entry left to
\* pop whose priority g + h is below bestMu.
C26_StopsWhenBothReachBestMu ==
  [][/\ ForwardBroke =>
          \A r \in QMin(search.pqB) : priorityB(search, r) >= search.bestMu
     /\ BackwardBroke =>
          \A r \in QMin(search.pqF) : priorityF(search, r) >= search.bestMu]_vars

\* The backward step has expanded vE (the first entry the backward queue
\* gives) and the call went on.
EndExpanded == ub \in {"empty", "stale"}

\* C27: once vE is expanded, every node u with an arc u -> vE carries a
\* backward label no larger than the weight of that arc.
C27_BackwardLabelsEndArcs ==
  EndExpanded =>
    \A u \in DOMAIN graph.adj : \A i \in DOMAIN graph.adj[u] :
      graph.adj[u][i].to = vE => search.B[u].g <= graph.adj[u][i].w

\* The virtual nodes and their half-edges are in the graph.
VirtualAttached == pc \in {"searchF", "searchB", "reconstruct", "assemble", "done", "crashed"} /\ vS >= 0

\* The half-edges of the graph as (source, target, weight).
halfEdges ==
  { << a[1], arcAt(graph, a).to, arcAt(graph, a).w >> :
      a \in { b \in ArcsOf(graph) : arcAt(graph, b).isVirt = 1 } }

\* The half-edges the table gives for the start snap and for the end snap.
startHalfEdges ==
  LET w == edgeTraversalTimeSec(sHost, profile)
      tw == timesT(sSnap.snap.tn, sSnap.snap.td, w)
      rest == timesOneMinusT(sSnap.snap.tn, sSnap.snap.td, w)
      from == globalOf(graph, sView, sSnap.snap.fromNode)
      to == globalOf(graph, sView, sSnap.snap.toNode)
  IN  IF ~sHost.oneway
      THEN { << from, vS, tw >>, << vS, to, rest >>, << vS, from, tw >> }
      ELSE { << vS, to, rest >> } \cup (IF from = sNode THEN { << from, vS, tw >> } ELSE {})

endHalfEdges ==
  LET w == edgeTraversalTimeSec(tHost, profile)
      tw == timesT(tSnap.snap.tn, tSnap.snap.td, w)
      rest == timesOneMinusT(tSnap.snap.tn, tSnap.snap.td, w)
      from == globalOf(graph, tView, tSnap.snap.fromNode)
      to == globalOf(graph, tView, tSnap.snap.toNode)
  IN  IF ~tHost.oneway
      THEN { << from, vE, tw >>, << to, vE, rest >> }
      ELSE { << from, vE, tw >> }

\* C28: the half-edges attached for the two snaps are exactly those of the
\* table: for the start snap from_global -> vS, vS -> to_global and, on a
\* two-way host, vS -> from_global (on a oneway host from_global -> vS only
\* when from is the chosen start-side node); for the end snap
\* from_global -> vE and, on a two-way host, to_global -> vE.
C28_HalfEdgesOfTable ==
  VirtualAttached => halfEdges = startHalfEdges \cup endHalfEdges

\* The graph is the one buildGlobalGraph produced.
GraphBuilt == pc \in {"snap", "virtual"}

\* The tile-local nodes of the loaded tiles, as (tile, node).
LocalNodes ==
  UNION { { << k, a >> : a \in 0 .. nodeCount(tiles[k].view) - 1 } : k \in DOMAIN tiles }
quantized(n) == QKey(nodeLatQ(tiles[n[1]].view, n[2]), nodeLonQ(tiles[n[1]].view, n[2]))
globalId(n) == local2global(profile, tiles, n[1])[n[2]]

\* The arcs of the graph that come from an edge of tile k.
arcsOfTile(k) ==
  { a \in ArcsOf(graph) :
      /\ arcAt(graph, a).isVirt = 0
      /\ arcAt(graph, a).tileX = tiles[k].key.x
      /\ arcAt(graph, a).tileY = tiles[k].key.y }

\* C29: two tile-local nodes, of one tile or of two, get the same global id
\* exactly when their quantized pairs are equal; the global node has the
\* node's coordinates and q2node leads to it, and the arcs of every tile's
\* edges run between the global ids of the edge's ends.
C29_NodesFusedByQuantizedPair ==
  GraphBuilt =>
    /\ \A m \in LocalNodes : \A n \in LocalNodes :
         (globalId(m) = globalId(n)) <=> (quantized(m) = quantized(n))
    /\ \A n \in LocalNodes :
         /\ globalId(n) \in DOMAIN graph.nodes
         /\ graph.nodes[globalId(n)] = nodeCoord(tiles[n[1]].view, n[2])
         /\ graph.q2node[quantized(n)] = globalId(n)
    /\ \A k \in DOMAIN tiles : \A a \in arcsOfTile(k) :
         LET e == edgeAt(tiles[k].view, arcAt(graph, a).edgeIdx)
         IN  { a[1], arcAt(graph, a).to } = { globalId(<< k, e.from_node >>),
                                              globalId(<< k, e.to_node >>) }

\* Witness of C29: two tiles are loaded, a node of the first and a node of
\* the second are one global node, and an arc of the first tile enters it
\* while an arc of the second leaves it.
C29_Witness ==
  /\ GraphBuilt
  /\ Size(tiles) = 2
  /\ \E m \in LocalNodes : \E n \in LocalNodes :
       /\ m[1] = 0 /\ n[1] = 1
       /\ globalId(m) = globalId(n)
       /\ \E a \in arcsOfTile(0) : arcAt(graph, a).to = globalId(m)
       /\ \E b \in arcsOfTile(1) : b[1] = globalId(m)

\* The entries of revAdj[v] that name the arc (u, i).
entriesFor(g, v, u, i) == { j \in DOMAIN g.revAdj[v] : g.revAdj[v][j] = << u, i >> }

\* Forward and reverse adjacency of g agree.
AdjacencyAgrees(g) ==
  /\ DOMAIN g.revAdj = DOMAIN g.adj
  /\ \A a \in ArcsOf(g) :
       /\ arcAt(g, a).to \in DOMAIN g.revAdj
       /\ Cardinality(entriesFor(g, arcAt(g, a).to, a[1], a[2])) = 1
  /\ \A v \in DOMAIN g.revAdj : \A j \in DOMAIN g.revAdj[v] :
       LET u == g.revAdj[v][j][1]
           i == g.revAdj[v][j][2]
       IN  /\ u \in DOMAIN g.adj
           /\ i >= 0 /\ i < Size(g.adj[u])
           /\ g.adj[u][i].to = v

\* Every arc and every reverse entry of g is, at the same position, in h.
KeptIn(g, h) ==
  /\ \A a \in ArcsOf(g) : a \in ArcsOf(h) /\ arcAt(h, a) = arcAt(g, a)
  /\ \A v \in DOMAIN g.revAdj : \A j \in DOMAIN g.revAdj[v] :
       v \in DOMAIN h.revAdj /\ j \in DOMAIN h.revAdj[v] /\ h.revAdj[v][j] = g.revAdj[v][j]

\* C30: in the graph buildGlobalGraph produces every arc adj[u][i] with
\* target v has exactly one entry (u, i) in revAdj[v] and every entry (u, i)
\* of revAdj[v] names an existing arc with target v; this holds after every
\* tile of the loop, and what was recorded for the earlier tiles is still in
\* place in the final graph.
C30_AdjacencyAgrees ==
  GraphBuilt =>
    /\ AdjacencyAgrees(graph)
    /\ \A k \in 0 .. Size(tiles) :
         /\ AdjacencyAgrees(graphBefore(profile, tiles, k))
         /\ KeptIn(graphBefore(profile, tiles, k), graph)

\* Witness of C30: the graph of two tiles has a node with several outgoing
\* arcs, one of them added with the second tile and recorded at a position
\* above 0.
C30_Witness ==
  /\ GraphBuilt
  /\ Size(tiles) = 2
  /\ \E a \in arcsOfTile(1) :
       /\ a[2] >= 1
       /\ a \notin ArcsOf(graphBefore(profile, tiles, 1))
       /\ entriesFor(graph, arcAt(graph, a).to, a[1], a[2]) # {}

\* Both endpoints of the call have been snapped.
Snapped == pc \notin {"start", "build", "snap"} /\ Len(waypoints) >= 2 /\ Size(tiles) > 0

\* The segments a snap may choose: (tile, edge, segment) of the loaded tiles
\* whose edge the profile may use at a speed above 0.
usableEdges(i) ==
  { ei \in 0 .. edgeCount(tiles[i].view) - 1 :
      /\ maskBit(edgeAt(tiles[i].view, ei), profile)
      /\ speedOf(edgeAt(tiles[i].view, ei), profile) > 0 }
snapCandidates ==
  UNION { UNION { { << i, ei, k >> :
                      k \in 0 .. Len(appendEdgeShape(tiles[i].view, ei, << >>, FALSE)) - 2 } :
                  ei \in usableEdges(i) } : i \in DOMAIN tiles }

\* Distance from c to its projection on the segment of the candidate.
candidateDist(cd, c) ==
  LET pts == appendEdgeShape(tiles[cd[1]].view, cd[2], << >>, FALSE)
  IN  haversine(c, projectPointToSegment(pts[cd[3] + 1], pts[cd[3] + 2], c).out)

\* (tile, edge, segment) a comes before b in the order of the scan.
scannedBefore(a, b) ==
  \/ a[1] < b[1]
  \/ a[1] = b[1] /\ a[2] < b[2]
  \/ a[1] = b[1] /\ a[2] = b[2] /\ a[3] < b[3]

\* The snap sn of coordinate c is the first nearest candidate.
FirstNearest(sn, c) ==
  IF snapCandidates = {} THEN ~sn.snap.has
  ELSE LET me == << sn.tile, sn.snap.edgeIdx, sn.snap.segIndex >>
       IN  /\ sn.snap.has
           /\ me \in snapCandidates
           /\ sn.snap.dist_m = candidateDist(me, c)
           /\ \A cd \in snapCandidates :
                /\ candidateDist(cd, c) >= sn.snap.dist_m
                /\ candidateDist(cd, c) = sn.snap.dist_m => ~scannedBefore(cd, me)
           /\ 0 <= sn.snap.tn /\ sn.snap.tn <= sn.snap.td /\ sn.snap.td > 0

\* C31: the snap of either endpoint lies on an edge whose access bit for the
\* profile is set and whose profile speed is above 0, no such edge is nearer,
\* among the nearest the first in the order tile, edge index, segment index
\* is taken, and t is in [0, 1]; there is no snap only when no such edge is
\* loaded.
C31_SnapIsFirstNearestAllowed ==
  Snapped =>
    /\ FirstNearest(sSnap, waypoints[1])
    /\ FirstNearest(tSnap, waypoints[Len(waypoints)])

\* Witness of C31: the start is equally near to segments of two tiles, an
\* edge the profile may not use is loaded, and the snap is on the first tile.
C31_Witness ==
  /\ Snapped /\ sSnap.snap.has
  /\ sSnap.tile = 0
  /\ \E cd \in snapCandidates :
       cd[1] = 1 /\ candidateDist(cd, waypoints[1]) = sSnap.snap.dist_m
  /\ \E i \in DOMAIN tiles : \E ei \in 0 .. edgeCount(tiles[i].view) - 1 :
       ~maskBit(edgeAt(tiles[i].view, ei), profile)

\* The call has made its loads.
Loaded == pc # "start" /\ Len(waypoints) >= 2

\* clamp(ceil(dist_km / 4) + 1, 1, 8) for a distance in metres.
frameOf(dist_m) ==
  LET quarters == CHOOSE n \in 0 .. dist_m \div 4000 + 1 :
                      4000 * n >= dist_m /\ 4000 * (n - 1) < dist_m
  IN  Min2(Max2(quarters + 1, 1), 8)

\* The frame of the call and the rectangle of its two endpoint tiles
\* widened by the frame on every side.
callFrame == frameOf(haversine(waypoints[1], waypoints[Len(waypoints)]))
endTiles == { webTileKeyFor(waypoints[1], tileZoom),
              webTileKeyFor(waypoints[Len(waypoints)], tileZoom) }
spanX == { k.x : k \in endTiles }
spanY == { k.y : k \in endTiles }
callRectangle ==
  { TileKey(tileZoom, x, y) :
      x \in SetMin(spanX) - callFrame .. -SetMin({ -v : v \in spanX }) + callFrame,
      y \in SetMin(spanY) - callFrame .. -SetMin({ -v : v \in spanY }) + callFrame }

\* Distances on both sides of every step of the frame.
FrameDistances == {0, 1, 3999, 4000, 4001, 8000, 8001, 24000, 24001, 28000, 28001, 60000}

\* C32: the loads of a call are those of the keys of the rectangle of the two
\* endpoint tiles widened by frame = clamp(ceil(dist_km / 4) + 1, 1, 8), each
\* key once: on the fresh store the backing store was read once per key of
\* the rectangle, and the keys cached are the stored keys of the rectangle.
C32_LoadsTheFramedRectangle ==
  /\ \A d \in FrameDistances : dynFrame(d) = frameOf(d) /\ dynFrame(d) \in 1 .. 8
  /\ Loaded =>
       /\ store.dbReads = Cardinality(callRectangle)
       /\ Cardinality(callRectangle)
            = (Cardinality(spanX) + 2 * callFrame) * (Cardinality(spanY) + 2 * callFrame)
       /\ Cached(store) = { k \in callRectangle : storeLoad(database, k) # {} }

\* Witness of C32: the endpoints lie in two tiles more than a frame step
\* apart in distance, and the rectangle holds keys that are not stored.
C32_Witness ==
  /\ Loaded
  /\ Cardinality(spanX) = 2
  /\ callFrame = 2
  /\ store.dbReads = 30
  /\ Cardinality(Cached(store)) = 2

\* The reference speed of a profile, cm/s: 13.9 m/s by car, 1.4 m/s on foot.
speedHeur(p) == IF p = Car THEN 1390 ELSE 140

\* The search has just been set up: only vS and vE are labelled.
SearchStarts ==
  /\ pc = "searchF"
  /\ \A v \in DOMAIN search.F : v # vS => search.F[v].g = Inf
  /\ \A v \in DOMAIN search.B : v # vE => search.B[v].g = Inf

\* C33: the priorities the search starts with are the great-circle distance
\* between vS and vE divided by the reference speed of the profile.
C33_HeuristicUsesProfileSpeed ==
  SearchStarts =>
    \A q \in search.pqF \cup search.pqB :
      q.f = (haversine(graph.nodes[vS], graph.nodes[vE]) * 100000) \div speedHeur(profile)

\* The edges of the view whose to_node is n.
edgesInto(view, n) == { ei \in 0 .. edgeCount(view) - 1 : edgeAt(view, ei).to_node = n }

\* C34: over any sequence of inEdgesOf calls on a view the reverse adjacency
\* is filled once, at the first call, and is the same after every later call;
\* the vector returned for node n holds exactly the indices of the edges
\* whose to_node is n, each once, in increasing order.
C34_InEdgesBuiltOnce ==
  /\ calls = 0 => ~tiles[0].inAdj_.built /\ tiles[0].builds = 0
  /\ calls >= 1 =>
       /\ tiles[0].inAdj_.built
       /\ tiles[0].builds = 1
       /\ prev.before.built <=> prev.calls >= 1
       /\ prev.before.built => tiles[0].inAdj_ = prev.before
       /\ prev.result = tiles[0].inAdj_.lists[prev.node]
       /\ { prev.result[i] : i \in DOMAIN prev.result } = edgesInto(tiles[0].view, prev.node)
       /\ \A i \in DOMAIN prev.result : \A j \in DOMAIN prev.result :
            i < j => prev.result[i] < prev.result[j]

\* Witness of C34: a later call, on a view already built, returned two edges.
C34_Witness ==
  /\ calls >= 2
  /\ prev.before.built
  /\ Len(prev.result) >= 2

\* The points an encoded polyline of the tile spells, in units of lat_q.
spelled(s) ==
  IF s = TwoPointString THEN << Coord(20, 30), Coord(10, 430) >>
  ELSE IF s = OnePointString THEN << Coord(-800, 800) >>
  ELSE << >>

\* The points of the edge by the order of resolution.
resolvedPoints(view, e) ==
  IF Len(e.shape) > 0 THEN e.shape
  ELSE IF hasEncodedPolyline(e) THEN spelled(e.encoded_polyline)
  ELSE << nodeCoord(view, e.from_node), nodeCoord(view, e.to_node) >>

\* C35: a call appends to the buffer the points of the shape slice when the
\* edge has one, else those of the decoded polyline when the edge carries
\* one, else the from node and the to node; it leaves out the first of them
\* exactly when skip_first is set and the buffer was not empty.
C35_ShapeResolutionOrder ==
  calls >= 1 =>
    LET pts == resolvedPoints(tiles[0].view, edgeAt(tiles[0].view, prev.edgeIdx))
        kept == IF prev.skipFirst /\ prev.out # << >> /\ pts # << >> THEN Tail(pts) ELSE pts
    IN  rr.polyline = prev.out \o kept

\* Witness of C35: on a buffer that was not empty a call with skip_first
\* appended the second point of the decoded polyline only, for an edge
\* without a shape slice.
C35_Witness ==
  /\ calls >= 2
  /\ prev.skipFirst /\ prev.out # << >>
  /\ prev.edgeIdx = 2
  /\ rr.polyline = prev.out \o << Coord(10, 430) >>

\* Both endpoints snapped on the same edge and the start is not after the
\* end along the edge's direction (any order will do on a two-way edge).
SameEdgeForward ==
  /\ sSnap.tile = tSnap.tile
  /\ sSnap.snap.edgeIdx = tSnap.snap.edgeIdx
  /\ \/ ~sHost.oneway
     \/ sSnap.snap.segIndex < tSnap.snap.segIndex
     \/ /\ sSnap.snap.segIndex = tSnap.snap.segIndex
        /\ sSnap.snap.tn * tSnap.snap.td <= tSnap.snap.tn * sSnap.snap.td

\* One can travel from the start snap to the end snap: along the host edge,
\* or over the nodes of the network (the directed paths of the assembled
\* graph from vS to vE).
Traversable == SameEdgeForward \/ costFrom(graph, vS)[vE] < Inf

\* C36: when both endpoints snap and one can travel from the start snap to
\* the end snap, the call returns OK.
C36_TraversableIsOK ==
  (Returned /\ sSnap.snap.has /\ tSnap.snap.has /\ vE >= 0 /\ Traversable)
  => rr.status = "OK"

\* astarGlobalBi reported success: the reconstruction has run and found a
\* meeting node.
SearchSucceeded == pc \in {"assemble", "done"} /\ search.meet >= 0

\* sq is a chain of arcs of g from s to t.
ContiguousPath(g, sq, s, t) ==
  /\ Len(sq) > 0
  /\ \A i \in 1 .. Len(sq) : sq[i] \in ArcsOf(g)
  /\ sq[1][1] = s
  /\ arcAt(g, sq[Len(sq)]).to = t
  /\ \A i \in 1 .. Len(sq) - 1 : arcAt(g, sq[i]).to = sq[i + 1][1]

\* C37: when the search succeeds, the reconstructed sequence is a chain of
\* arcs of the assembled graph from vS to vE -- the first arc leaves vS, the
\* last enters vE, each arc ends where the next begins -- and its weight is
\* at most bestMu.
C37_ReconstructedPathIsContiguous ==
  SearchSucceeded =>
    /\ ContiguousPath(graph, ThePath, vS, vE)
    /\ seqWeight(graph, ThePath, 1) <= search.bestMu

\* The node ids the search touches: the virtual nodes, the queued nodes,
\* the targets of the arcs and the sources named by the reverse lists.
touchedNodes ==
  {vS, vE} \cup { q.v : q \in search.pqF \cup search.pqB }
  \cup { arcAt(graph, a).to : a \in ArcsOf(graph) }
  \cup UNION { { graph.revAdj[v][i][1] : i \in DOMAIN graph.revAdj[v] } : v \in DOMAIN graph.revAdj }

\* C38: during a query every node id the assembly and the search touch,
\* vS and vE among them, has an entry in nodes, adj, revAdj and both label
\* arrays, and every (u, i) of revAdj is an arc adj[u][i].
C38_IndicesInRange ==
  VirtualAttached =>
    /\ \A v \in touchedNodes :
         /\ v \in DOMAIN graph.nodes /\ v \in DOMAIN graph.adj
         /\ v \in DOMAIN graph.revAdj
         /\ v \in DOMAIN search.F /\ v \in DOMAIN search.B
    /\ \A v \in DOMAIN graph.revAdj : \A i \in DOMAIN graph.revAdj[v] :
         graph.revAdj[v][i] \in ArcsOf(graph)

\* ------------------------------------------------ the search under fairness
\* route runs on one thread: a step of the search loop that can be taken is
\* taken.
TermSpec == Init /\ [][Next]_vars /\ WF_vars(ForwardStep) /\ WF_vars(BackwardStep)

\* Following prev from v leads to target, no node met twice.
RECURSIVE walkReaches(_, _, _, _)
walkReaches(lbl, v, target, seen) ==
  IF v = target THEN TRUE
  ELSE IF v \in seen \/ v \notin DOMAIN lbl THEN FALSE
  ELSE walkReaches(lbl, lbl[v].prev, target, seen \cup {v})

SearchLoopRuns == pc \in {"searchF", "searchB"}
SearchLoopOver == pc \in {"reconstruct", "crashed"}

\* The search ended with a meeting node.
MeetFound == pc = "reconstruct" /\ search.meet >= 0

\* C39: the search loop ends (arc weights are never negative; half-edges of
\* weight 0 included), and from the meeting node the forward predecessors
\* lead to vS and the backward predecessors lead to vE with no node met
\* twice.
C39_SearchAndWalksTerminate ==
  /\ SearchLoopRuns ~> SearchLoopOver
  /\ [](\A a \in ArcsOf(graph) : arcAt(graph, a).w >= 0)
  /\ [](MeetFound => /\ walkReaches(search.F, search.meet, vS, {})
                     /\ walkReaches(search.B, search.meet, vE, {}))

\* A search over a graph with a half-edge of weight 0 ended and both walks
\* have arcs to follow.
C39_Witness ==
  /\ MeetFound
  /\ \E a \in ArcsOf(graph) : arcAt(graph, a).isVirt = 1 /\ arcAt(graph, a).w = 0
  /\ search.meet # vS /\ search.meet # vE

====
